---- MODULE Spec2Model ----
(***************************************************************************)
(* The render backend of webrender (src/webrender/src/render_backend.rs):  *)
(* the coordinator thread that owns the document table, receives API       *)
(* messages, forwards transactions to the scene builder thread, drains the *)
(* builder's results and decides when a frame is built and published.      *)
(*                                                                         *)
(* One action per handler.  A handler is a single step: everything it      *)
(* calls (process_scene_msg, update_document, build_frame, ...) is part of *)
(* the step.  The scene builder thread and the API producer are the other  *)
(* processes; they act through the channels.                               *)
(***************************************************************************)
EXTENDS Integers, Sequences, FiniteSets, TLC

VARIABLES
    documents,              \* RenderBackend.documents: DocumentId -> Document
    last_scene_id,          \* RenderBackend.last_scene_id
    payload_rx,             \* payloads sent and not yet received
    payload_buffer,         \* RenderBackend.payload_buffer
    scene_tx,               \* requests in the normal scene builder channel
    low_priority_scene_tx,  \* requests in the low priority channel
    scene_rx,               \* builder results not yet drained
    result_tx,              \* ResultMsgs sent by the latest backend step
    notifier,               \* RenderNotifier calls made by the latest step
    swap_replies,           \* replies sent by the latest step on the
                            \* channels that builder results and frame
                            \* ops carry
    capture,                \* the capture directory: <<>> or <<backend>>
    pc,                     \* position of RenderBackend::run
    handled,                \* history: what the latest backend step handled
    scene_ids,              \* history: scene ids handed to the builder
    paired,                 \* history: (SetDisplayList, payload) pairings
    payloads_sent,          \* history: number of payloads sent so far
    fresh,                  \* history: built since the last invalidation
    fresh_any_scroll,       \* history: same, counting every scroll op
    msgs_received,          \* history: number of ApiMsgs received so far
    builder_running,        \* the scene builder thread has not ended
    calls,                  \* history: the calls the latest backend step
                            \* made on the resource cache, the sampler, the
                            \* frame counter, the notification requests and
                            \* the builder channels, in the order of the code
    resume_rx               \* the resume channel of a scene swap: None, or
                            \* Some of what the builder has done with it

vars == <<documents, last_scene_id, payload_rx, payload_buffer, scene_tx,
          low_priority_scene_tx, scene_rx, result_tx, notifier, swap_replies,
          capture, pc, handled, scene_ids, paired, payloads_sent, fresh,
          fresh_any_scroll, msgs_received, builder_running, calls,
          resume_rx>>

----------------------------------------------------------------------------
(* Bounds of the model. *)

MaxApiMsgs == 4     \* ApiMsgs the backend receives over a run
MaxSceneId == 2     \* transactions sent to the builder over a run
MaxPayloads == 4    \* payloads sent over a run
MaxQueue == 2       \* requests waiting in one builder channel
MaxIssued == 3      \* scene ids handed to the builder over a run

----------------------------------------------------------------------------
(* Values. *)

None == << >>
Some(x) == << x >>
IsSome(o) == o # << >>

\* DocumentId(IdNamespace, u32)
DocIds == { <<1, 1>>, <<2, 1>> }
\* In handled, for a step that is about no document
NoDocument == << 0, 0 >>

\* (epoch, pipeline_id) of a display list
Keys == { "a", "b" }

\* HashMap::insert and HashMap::remove / retain
MapInsert(m, k, v) ==
    [x \in (DOMAIN m) \cup { k } |-> IF x = k THEN v ELSE m[x]]
MapRetain(m, keep) == [x \in (DOMAIN m) \cap keep |-> m[x]]
EmptyMap == [x \in {} |-> FALSE]

----------------------------------------------------------------------------
(* Document (render_backend.rs, struct Document).  The scene is kept as    *)
(* has_root (Scene::has_root_pipeline), the frame builder and the hit      *)
(* tester as present / absent, the view as pan, window_empty and           *)
(* page_zoom_factor (the pinch zoom and the device pixel ratio are factors *)
(* of the same product and are written the same way), the                  *)
(* clip-scroll tree as scroll_offset: the offset of the node with the      *)
(* external scroll id that ScrollNodeWithId names, 0 when the tree holds   *)
(* no offset for it.  hit_tester_tree names the tree the hit tester was   *)
(* created from, by the frame id the document had when that tree was      *)
(* current (every swap brings a new tree and a new frame id).             *)

Document_new(window_empty) ==
    [ frame_id |-> 0,
      frame_builder |-> FALSE,
      has_root |-> FALSE,
      hit_tester |-> FALSE,
      frame_is_valid |-> FALSE,
      hit_tester_is_valid |-> FALSE,
      pan |-> 0,
      window_empty |-> window_empty,
      page_zoom_factor |-> 1,
      scroll_offset |-> 0,
      hit_tester_tree |-> 0,
      removed_pipelines |-> << >> ]

\* A can_render that does not ask for a root pipeline
can_render_without_root(doc) == doc.frame_builder

can_render(doc) == doc.frame_builder /\ doc.has_root

has_pixels(doc) == ~doc.window_empty

\* DocumentOps::nop()
DocumentOps_nop == [scroll |-> FALSE, build_frame |-> FALSE]

\* A process_frame_msg that invalidates nothing
process_frame_msg_never_invalidates(doc, message) ==
    CASE message.type = "SetPan" ->
            [doc |-> [doc EXCEPT !.pan = message.pan], ops |-> DocumentOps_nop]
      [] message.type = "Scroll" ->
            [doc |-> doc, ops |-> [DocumentOps_nop EXCEPT !.scroll = TRUE]]
      [] message.type = "ScrollNodeWithId" ->
            [doc |-> IF message.moves
                     THEN [doc EXCEPT !.scroll_offset = 1 - @] ELSE doc,
             ops |-> [DocumentOps_nop EXCEPT !.scroll = TRUE]]
      [] OTHER -> [doc |-> doc, ops |-> DocumentOps_nop]

\* Document::process_frame_msg.  message.moves is the answer of the
\* ClipScrollTree: whether a node changed position.  A ScrollNodeWithId
\* that moved its node leaves it at another offset (of two: 0 and 1).
process_frame_msg(doc, message) ==
    CASE message.type = "Scroll" ->
            [doc |-> IF doc.hit_tester /\ message.moves
                     THEN [doc EXCEPT !.hit_tester_is_valid = FALSE,
                                      !.frame_is_valid = FALSE]
                     ELSE doc,
             ops |-> [DocumentOps_nop EXCEPT !.scroll = TRUE]]
      [] message.type = "SetPan" ->
            [doc |-> IF doc.pan # message.pan
                     THEN [doc EXCEPT !.pan = message.pan,
                                      !.hit_tester_is_valid = FALSE,
                                      !.frame_is_valid = FALSE]
                     ELSE doc,
             ops |-> DocumentOps_nop]
      [] message.type = "ScrollNodeWithId" ->
            [doc |-> IF message.moves
                     THEN [doc EXCEPT !.scroll_offset = 1 - @,
                                      !.hit_tester_is_valid = FALSE,
                                      !.frame_is_valid = FALSE]
                     ELSE doc,
             ops |-> [DocumentOps_nop EXCEPT !.scroll = TRUE]]
      [] OTHER ->
            \* UpdateEpoch, EnableFrameOutput, HitTest, GetScrollNodeState,
            \* UpdateDynamicProperties, AppendDynamicProperties: nothing of
            \* the document kept here changes
            [doc |-> doc, ops |-> DocumentOps_nop]

\* A build_frame that keeps the hit tester the document had
build_frame_keeps_hit_tester(doc) ==
    [doc EXCEPT !.frame_is_valid = TRUE,
                !.hit_tester_is_valid = TRUE]

\* Document::build_frame
build_frame(doc) ==
    [doc EXCEPT !.hit_tester = TRUE,
                !.hit_tester_tree = doc.frame_id,
                !.frame_is_valid = TRUE,
                !.hit_tester_is_valid = TRUE]

\* ClipScrollTree::discard_frame_state_for_pipeline (clip_scroll_tree.rs),
\* called by Document::discard_frame_state_for_pipeline (lines 292-295):
\* the tree forgets the scroll offsets of the pipeline
discard_frame_state_for_pipeline(doc) == [doc EXCEPT !.scroll_offset = 0]

\* ClipScrollTree::drain and finalize_and_apply_pending_scroll_offsets
\* (clip_scroll_tree.rs): the offset that the node with the external
\* scroll id has in the incoming tree, given the offset recorded in the
\* outgoing tree.  has_node: the incoming tree has a node with that id.
finalize_and_apply_pending_scroll_offsets(old_scrolling_states, has_node) ==
    IF has_node THEN old_scrolling_states ELSE 0

\* A new_async_scene_ready that installs the new tree as it was built
new_async_scene_ready_drops_scroll(doc, built_scene) ==
    [doc EXCEPT !.has_root = built_scene.has_root,
                !.frame_is_valid = FALSE,
                !.hit_tester_is_valid = FALSE,
                !.frame_builder = TRUE,
                !.scroll_offset = 0,
                !.frame_id = doc.frame_id + 1]

\* A new_async_scene_ready that starts the frame ids again
new_async_scene_ready_resets_frame_id(doc, built_scene) ==
    [doc EXCEPT !.has_root = built_scene.has_root,
                !.frame_is_valid = FALSE,
                !.hit_tester_is_valid = FALSE,
                !.frame_builder = TRUE,
                !.frame_id = 0]

\* Line 568: doc.removed_pipelines.append(&mut txn.removed_pipelines)
append_removed_pipelines(doc, removed_pipelines) ==
    [doc EXCEPT !.removed_pipelines = @ \o removed_pipelines]

\* Document::new_async_scene_ready.  The tree of a built scene has the
\* scroll node iff the scene has a root pipeline.
new_async_scene_ready(doc, built_scene) ==
    [doc EXCEPT !.has_root = built_scene.has_root,
                !.frame_is_valid = FALSE,
                !.hit_tester_is_valid = FALSE,
                !.frame_builder = TRUE,
                !.scroll_offset =
                    finalize_and_apply_pending_scroll_offsets(
                        doc.scroll_offset, built_scene.has_root),
                !.frame_id = doc.frame_id + 1]

\* The loop over frame_ops in update_document (lines 956-962).
RECURSIVE process_frame_ops(_, _, _)
process_frame_ops(doc, frame_ops, acc) ==
    IF frame_ops = << >> THEN [doc |-> doc, ops |-> acc]
    ELSE LET r == process_frame_msg(doc, Head(frame_ops))
         IN process_frame_ops(r.doc, Tail(frame_ops),
                [scroll |-> acc.scroll \/ r.ops.scroll,
                 build_frame |-> acc.build_frame \/ r.ops.build_frame])

\* The loop over resource_updates in update_document (lines 964-968).
has_update_image(resource_updates) ==
    \E i \in 1..Len(resource_updates) : resource_updates[i].type = "UpdateImage"

\* ResultMsg and RenderNotifier calls of update_document
UpdateGpuCache == [type |-> "UpdateGpuCache"]
PipelineInfo(document_id, removed_pipelines) ==
    [type |-> "PublishPipelineInfo", document_id |-> document_id,
     removed_pipelines |-> removed_pipelines]
\* A PublishPipelineInfo that reports no removed pipeline
PublishPipelineInfo(document_id) == PipelineInfo(document_id, << >>)
PublishDocument(document_id, frame_id, is_new_scene) ==
    [type |-> "PublishDocument", document_id |-> document_id,
     frame_id |-> frame_id, is_new_scene |-> is_new_scene]
new_frame_ready(document_id, scroll, render_frame) ==
    [type |-> "new_frame_ready", document_id |-> document_id,
     scroll |-> scroll, render_frame |-> render_frame]

\* An updated_pipeline_info that leaves the list of the document as it is
updated_pipeline_info_keeps_list(doc, document_id) ==
    [ info |-> PipelineInfo(document_id, doc.removed_pipelines),
      doc |-> doc ]

\* Document::updated_pipeline_info (lines 284-290): the removed pipelines
\* are taken out of the document and go into the PipelineInfo
updated_pipeline_info(doc, document_id) ==
    [ info |-> PipelineInfo(document_id, doc.removed_pipelines),
      doc |-> [doc EXCEPT !.removed_pipelines = << >>] ]

\* Results that tell the pipeline info only with a built frame
frame_results_of_built_frames(built, requested_frame, info, document) ==
    IF built THEN << UpdateGpuCache, info, document >> ELSE << >>

\* The sends of update_document on result_tx (lines 1001-1050)
frame_results(built, requested_frame, info, document) ==
    IF built THEN << UpdateGpuCache, info, document >>
    ELSE IF requested_frame THEN << info >>
    ELSE << >>

\* A notification that is made only for a frame that will be rendered
frame_notes_when_rendered(requested_frame, document_id, scroll, render_frame) ==
    IF requested_frame /\ render_frame
    THEN << new_frame_ready(document_id, scroll, render_frame) >>
    ELSE << >>

\* A notification that is made at the end of every update_document
frame_notes_of_every_update(requested_frame, document_id, scroll, render_frame) ==
    << new_frame_ready(document_id, scroll, render_frame) >>

\* The end of update_document (lines 1061-1063): the notifier is told of
\* every requested frame, built or not
frame_notes(requested_frame, document_id, scroll, render_frame) ==
    IF requested_frame
    THEN << new_frame_ready(document_id, scroll, render_frame) >>
    ELSE << >>

\* The reply to a HitTest (lines 200-210): what the hit tester finds (here
\* the point lies over one item), or no item when there is no hit tester
HitTestResult(items) == [type |-> "HitTestResult", items |-> items]

\* A HitTest that is answered only by a hit tester
hit_test_only_with_hit_tester(doc, message) ==
    IF message.type = "HitTest" /\ doc.hit_tester
    THEN << HitTestResult(<< "item" >>) >>
    ELSE << >>

\* tx.send(result) of process_frame_msg (line 209)
hit_test(doc, message) ==
    IF message.type = "HitTest"
    THEN << HitTestResult(IF doc.hit_tester THEN << "item" >> ELSE << >>) >>
    ELSE << >>

\* The replies the loop over frame_ops sends (lines 956-962)
RECURSIVE hit_test_replies(_, _)
hit_test_replies(doc, frame_ops) ==
    IF frame_ops = << >> THEN << >>
    ELSE hit_test(doc, Head(frame_ops))
         \o hit_test_replies(process_frame_msg(doc, Head(frame_ops)).doc,
                             Tail(frame_ops))

\* A post-scene-building update that is given no resource update
post_scene_building_update_of_nothing(resource_updates) ==
    [call |-> "post_scene_building_update", updates |-> << >>]

\* The calls on the resource cache (resource_cache.rs)
pre_scene_building_update(resource_updates) ==
    [call |-> "pre_scene_building_update", updates |-> resource_updates]
post_scene_building_update(resource_updates) ==
    [call |-> "post_scene_building_update", updates |-> resource_updates]

\* NotificationRequest (api): when is its Checkpoint, id tells the requests
\* of a run apart
NotificationRequest(when, id) == [when |-> when, id |-> id]

\* drain_filter of lines 1052-1056: n.notify() for every request of the
\* transaction that waits for Checkpoint::FrameBuilt
notify_frame_built(notifications) ==
    LET due == SelectSeq(notifications, LAMBDA n : n.when = "FrameBuilt")
    IN  [i \in 1..Len(due) |-> [call |-> "notify", request |-> due[i]]]

\* A suppression that lets a valid frame be built again
build_although_valid(build_frame_in, doc) == build_frame_in

\* `if doc.frame_is_valid { build_frame = false; }` (lines 997-999)
build_unless_valid(build_frame_in, doc) == build_frame_in /\ ~doc.frame_is_valid

\* RenderBackend::update_document, for a document that is in the table (the
\* caller models the unwrap of line 952).  sampled: what sampler.sample()
\* returns (no ops without a sampler); flushed: what
\* dynamic_properties.flush_pending_updates() returns.  The result holds
\* the document, the ResultMsgs sent, the notifier calls, whether
\* build_frame was called, and the calls made on the sampler (if there is
\* one), the resource cache, the frame counter and the notifications.
update_document(doc, document_id, resource_updates, frame_ops_in, notifications, build_frame_in, render_frame_in, has_built_scene, sampled, flushed) ==
    LET requested_frame == render_frame_in
        frame_ops == IF build_frame_in THEN frame_ops_in \o sampled
                     ELSE frame_ops_in
        f == process_frame_ops(doc, frame_ops, DocumentOps_nop)
        doc1 == IF has_update_image(resource_updates)
                THEN [f.doc EXCEPT !.frame_is_valid = FALSE]
                ELSE f.doc
        build1 == build_frame_in \/ f.ops.build_frame \/ has_built_scene
        doc2 == IF flushed
                THEN [doc1 EXCEPT !.frame_is_valid = FALSE,
                                  !.hit_tester_is_valid = FALSE]
                ELSE doc1
        build2 == build1 \/ flushed
        build3 == build2 /\ can_render(doc2)
        render_frame == render_frame_in /\ can_render(doc2)
        build4 == build_unless_valid(build3, doc2)
        built == build4 /\ has_pixels(doc2)
        doc3 == IF built THEN build_frame(doc2) ELSE doc2
        p == updated_pipeline_info(doc3, document_id)
    IN  [ doc |-> IF built \/ requested_frame THEN p.doc ELSE doc3,
          results |->
            frame_results(built, requested_frame, p.info,
                PublishDocument(document_id, doc2.frame_id, has_built_scene)),
          notes |-> frame_notes(requested_frame, document_id, f.ops.scroll,
                                render_frame),
          built |-> built,
          frame_ops |-> frame_ops,
          replies |-> hit_test_replies(doc, frame_ops),
          calls |->
            (IF build_frame_in THEN << [call |-> "sample"] >> ELSE << >>)
            \o << post_scene_building_update(resource_updates) >>
            \o (IF built THEN << [call |-> "frame_counter"] >> ELSE << >>)
            \o notify_frame_built(notifications) ]

----------------------------------------------------------------------------
(* History of invalidating events, kept beside the document table.         *)

\* The frame op invalidates the frame: a scroll that moved a node, or a
\* SetPan to another pan.
Invalidates(doc, message) ==
    \/ message.type = "Scroll" /\ doc.hit_tester /\ message.moves
    \/ message.type = "ScrollNodeWithId" /\ message.moves
    \/ message.type = "SetPan" /\ message.pan # doc.pan

\* The same, with every Scroll / ScrollNodeWithId op counted.
InvalidatesAnyScroll(doc, message) ==
    \/ message.type \in {"Scroll", "ScrollNodeWithId"}
    \/ message.type = "SetPan" /\ message.pan # doc.pan

RECURSIVE AnyInvalidates(_, _, _)
AnyInvalidates(doc, frame_ops, any_scroll) ==
    IF frame_ops = << >> THEN FALSE
    ELSE \/ IF any_scroll THEN InvalidatesAnyScroll(doc, Head(frame_ops))
            ELSE Invalidates(doc, Head(frame_ops))
         \/ AnyInvalidates(process_frame_msg(doc, Head(frame_ops)).doc,
                           Tail(frame_ops), any_scroll)

\* fresh after an update_document: a build makes the frame fresh; without a
\* build it stays fresh iff it was and no invalidating event came.
FreshAfter(was_fresh, doc, swapped, u, resource_updates, flushed, any_scroll) ==
    IF u.built THEN TRUE
    ELSE /\ was_fresh
         /\ ~swapped
         /\ ~AnyInvalidates(doc, u.frame_ops, any_scroll)
         /\ ~has_update_image(resource_updates)
         /\ ~flushed

----------------------------------------------------------------------------
(* Payload reassembly (process_scene_msg, SetDisplayList, lines 474-487).  *)
(* A payload is [key, id]: id is its position in the payload stream.       *)

\* A position() that ignores the key
position_any_key(payloads, key) == IF payloads = << >> THEN 0 ELSE 1

\* Iterator::position: the first index whose payload has the key, 0 if none
position(payloads, key) ==
    IF \E i \in 1..Len(payloads) : payloads[i].key = key
    THEN CHOOSE i \in 1..Len(payloads) :
            /\ payloads[i].key = key
            /\ \A j \in 1..(i - 1) : payloads[j].key # key
    ELSE 0

\* A removal that pops the last element whatever idx is
pop_last(v, idx) == SubSeq(v, 1, Len(v) - 1)

\* Vec::swap_remove: the last element takes the place of the removed one
swap_remove(v, idx) ==
    [i \in 1..(Len(v) - 1) |-> IF i = idx THEN v[Len(v)] ELSE v[i]]

\* The payload a SetDisplayList with this key gets, and the buffer and the
\* channel it leaves.  blocked: the channel has no such payload, and the
\* loop of line 479 stays in recv until the producer sends one.
match_payload(buffer, rx, key) ==
    LET idx == position(buffer, key)
        n == position(rx, key)
    IN  IF idx # 0
        THEN [ blocked |-> FALSE, data |-> buffer[idx],
               buffer |-> swap_remove(buffer, idx), rx |-> rx ]
        ELSE IF n # 0
        THEN [ blocked |-> FALSE, data |-> rx[n],
               buffer |-> buffer \o SubSeq(rx, 1, n - 1),
               rx |-> SubSeq(rx, n + 1, Len(rx)) ]
        ELSE [ blocked |-> TRUE, data |-> [key |-> key, id |-> 0],
               buffer |-> buffer \o rx, rx |-> << >> ]

----------------------------------------------------------------------------
(* Transactions (prepare_transaction, lines 841-925).                      *)

\* The Transaction that prepare_transaction starts with (lines 848-863)
Transaction_new(document_id, transaction_msg) ==
    [ document_id |-> document_id,
      display_list_updates |-> << >>,
      removed_pipelines |-> << >>,
      epoch_updates |-> << >>,
      request_scene_build |-> None,
      blob_requests |-> << >>,
      resource_updates |-> transaction_msg.resource_updates,
      frame_ops |-> transaction_msg.frame_ops,
      notifications |-> transaction_msg.notifications,
      set_root_pipeline |-> None,
      build_frame |-> transaction_msg.generate_frame,
      render_frame |-> transaction_msg.generate_frame ]

\* RenderBackend::process_scene_msg on st = [documents, txn, payload_buffer,
\* payload_rx, paired, panicked, blocked].
process_scene_msg(st, document_id, message) ==
    IF document_id \notin DOMAIN st.documents
    THEN [st EXCEPT !.panicked = TRUE]          \* expect("No document?")
    ELSE
    CASE message.type = "UpdateEpoch" ->
            [st EXCEPT !.txn.epoch_updates = Append(@, message.pipeline_id)]
      [] message.type = "SetPageZoom" ->
            [st EXCEPT !.documents[document_id].page_zoom_factor =
                            message.factor]
      [] message.type = "SetWindowParameters" ->
            [st EXCEPT !.documents[document_id].window_empty =
                            message.window_empty]
      [] message.type = "SetDisplayList" ->
            LET m == match_payload(st.payload_buffer, st.payload_rx,
                                   message.key)
            IN  IF m.blocked
                THEN [st EXCEPT !.blocked = TRUE,
                                !.payload_buffer = m.buffer,
                                !.payload_rx = m.rx]
                ELSE [st EXCEPT
                        !.payload_buffer = m.buffer,
                        !.payload_rx = m.rx,
                        !.paired = Append(@, [key |-> message.key,
                                              data |-> m.data]),
                        !.documents[document_id] =
                            IF message.preserve_frame_state THEN @
                            ELSE discard_frame_state_for_pipeline(@),
                        !.txn.display_list_updates = Append(@, message.key)]
      [] message.type = "SetRootPipeline" ->
            [st EXCEPT !.txn.set_root_pipeline = Some(message.pipeline_id)]
      [] message.type = "RemovePipeline" ->
            [st EXCEPT !.txn.removed_pipelines = Append(@, message.pipeline_id)]
      [] OTHER -> st                            \* SetPinchZoom

\* The loop over scene_ops (lines 870-879); a panic or a payload that has
\* not come ends it.
RECURSIVE process_scene_ops(_, _, _)
process_scene_ops(st, document_id, scene_ops) ==
    IF scene_ops = << >> \/ st.panicked \/ st.blocked THEN st
    ELSE process_scene_ops(process_scene_msg(st, document_id, Head(scene_ops)),
                           document_id, Tail(scene_ops))

\* get_blob_image_updates (lines 1173-1192)
get_blob_image_updates(updates) ==
    SelectSeq(updates, LAMBDA u : u.type \in {"AddImage", "UpdateImage"} /\ u.blob)

\* Transaction::can_skip_scene_builder (scene_builder.rs)
can_skip_scene_builder(txn) ==
    /\ ~IsSome(txn.request_scene_build)
    /\ txn.display_list_updates = << >>
    /\ txn.epoch_updates = << >>
    /\ txn.removed_pipelines = << >>
    /\ txn.blob_requests = << >>
    /\ ~IsSome(txn.set_root_pipeline)

\* Transaction::should_build_scene (scene_builder.rs)
should_build_scene(txn) ==
    txn.display_list_updates # << >> \/ IsSome(txn.set_root_pipeline)

\* The test of line 890 with the routing flag inverted
takes_fast_path_when_routed(transaction_msg, txn) ==
    transaction_msg.use_scene_builder_thread /\ can_skip_scene_builder(txn)

\* The test of line 890
takes_fast_path(transaction_msg, txn) ==
    ~transaction_msg.use_scene_builder_thread /\ can_skip_scene_builder(txn)

\* A send that puts the message at the head of the channel
send_first(channel, msg) == << msg >> \o channel

\* Sender::send
send(channel, msg) == Append(channel, msg)

----------------------------------------------------------------------------
(* The backend thread (RenderBackend::run, lines 551-655).                 *)
(* pc = "drain": in the try_recv loop of line 562; pc = "recv": in         *)
(* api_rx.recv() of line 621; pc = "stopping": in scene_rx.recv() of line  *)
(* 635, after the Stop; pc = "done": run has returned; pc = "panicked":    *)
(* the thread has panicked.                                                *)

Init ==
    /\ documents = EmptyMap
    /\ last_scene_id = 0
    /\ payload_rx = << >>
    /\ payload_buffer = << >>
    /\ scene_tx = << >>
    /\ low_priority_scene_tx = << >>
    /\ scene_rx = << >>
    /\ result_tx = << >>
    /\ notifier = << >>
    /\ swap_replies = << >>
    /\ capture = None
    /\ pc = "drain"
    /\ handled = [op |-> "new", document_id |-> NoDocument]
    /\ scene_ids = << >>
    /\ paired = << >>
    /\ payloads_sent = 0
    /\ fresh = EmptyMap
    /\ fresh_any_scroll = EmptyMap
    /\ msgs_received = 0
    /\ builder_running = TRUE
    /\ calls = << >>
    /\ resume_rx = None

\* api_rx.recv() of line 621 returns a message
Receive ==
    /\ pc = "recv"
    /\ msgs_received < MaxApiMsgs
    /\ msgs_received' = msgs_received + 1

\* A panic of the backend thread: nothing it owns is seen again.
Panic ==
    /\ pc' = "panicked"
    /\ UNCHANGED <<documents, last_scene_id, payload_rx, payload_buffer,
                   scene_tx, low_priority_scene_tx, scene_rx, result_tx,
                   notifier, swap_replies, capture, scene_ids, paired,
                   payloads_sent, builder_running, fresh, fresh_any_scroll, calls, resume_rx>>

\* The producer sends a payload (the other end of payload_rx).
SendPayload(key) ==
    /\ payloads_sent < MaxPayloads
    /\ payloads_sent' = payloads_sent + 1
    /\ payload_rx' = Append(payload_rx, [key |-> key, id |-> payloads_sent + 1])
    /\ UNCHANGED <<documents, last_scene_id, payload_buffer, scene_tx,
                   low_priority_scene_tx, scene_rx, result_tx, notifier,
                   swap_replies, capture, pc, handled, scene_ids, paired,
                   fresh, fresh_any_scroll, msgs_received, builder_running, calls, resume_rx>>

\* A loop of line 562 that ends while results wait
TryRecvSkipped ==
    /\ pc = "drain"
    /\ pc' = "recv"
    /\ UNCHANGED <<documents, last_scene_id, payload_rx, payload_buffer,
                   scene_tx, low_priority_scene_tx, scene_rx, result_tx,
                   notifier, swap_replies, capture, handled, scene_ids,
                   paired, payloads_sent, builder_running, fresh, fresh_any_scroll, msgs_received, calls, resume_rx>>

\* try_recv of line 562 finds no result: the loop ends and run waits in
\* api_rx.recv().
TryRecvEmpty ==
    /\ pc = "drain"
    /\ scene_rx = << >>
    /\ pc' = "recv"
    /\ UNCHANGED <<documents, last_scene_id, payload_rx, payload_buffer,
                   scene_tx, low_priority_scene_tx, scene_rx, result_tx,
                   notifier, swap_replies, capture, handled, scene_ids,
                   paired, payloads_sent, builder_running, fresh, fresh_any_scroll, msgs_received, calls, resume_rx>>

\* An AddDocument that keeps the document the table already holds for the id
AddDocumentKeepsExisting(document_id, window_empty) ==
    /\ Receive
    /\ pc' = "drain"
    /\ handled' = [op |-> "AddDocument", document_id |-> document_id]
    /\ documents' = IF document_id \in DOMAIN documents
                    THEN documents
                    ELSE MapInsert(documents, document_id, Document_new(window_empty))
    /\ fresh' = MapInsert(fresh, document_id, FALSE)
    /\ fresh_any_scroll' = MapInsert(fresh_any_scroll, document_id, FALSE)
    /\ result_tx' = << >>
    /\ calls' = << >>
    /\ notifier' = << >>
    /\ swap_replies' = << >>
    /\ UNCHANGED <<last_scene_id, payload_rx, payload_buffer, scene_tx,
                   low_priority_scene_tx, scene_rx, capture, scene_ids,
                   paired, payloads_sent, builder_running, resume_rx>>

\* ApiMsg::AddDocument (lines 702-709)
AddDocument(document_id, window_empty) ==
    /\ Receive
    /\ pc' = "drain"
    /\ handled' = [op |-> "AddDocument", document_id |-> document_id]
    /\ documents' = MapInsert(documents, document_id, Document_new(window_empty))
    /\ fresh' = MapInsert(fresh, document_id, FALSE)
    /\ fresh_any_scroll' = MapInsert(fresh_any_scroll, document_id, FALSE)
    /\ result_tx' = << >>
    /\ calls' = << >>
    /\ notifier' = << >>
    /\ swap_replies' = << >>
    /\ UNCHANGED <<last_scene_id, payload_rx, payload_buffer, scene_tx,
                   low_priority_scene_tx, scene_rx, capture, scene_ids,
                   paired, payloads_sent, builder_running, resume_rx>>

\* History: the requests and results of a deleted document are marked.
MarkOrphaned(channel, document_id) ==
    [i \in 1..Len(channel) |->
        IF channel[i].type = "Transaction"
           /\ channel[i].txn.document_id = document_id
        THEN [channel[i] EXCEPT !.orphaned = TRUE]
        ELSE channel[i]]

\* ApiMsg::DeleteDocument (lines 710-715)
DeleteDocument(document_id) ==
    /\ Receive
    /\ handled' = [op |-> "DeleteDocument", document_id |-> document_id]
    /\ IF ~builder_running
       THEN Panic       \* send(..).unwrap(): the receiver is gone
       ELSE /\ Len(low_priority_scene_tx) < MaxQueue
            /\ pc' = "drain"
            /\ documents' = MapRetain(documents, DocIds \ { document_id })
            /\ fresh' = MapRetain(fresh, DocIds \ { document_id })
            /\ fresh_any_scroll' = MapRetain(fresh_any_scroll, DocIds \ { document_id })
            /\ low_priority_scene_tx' =
                    send(MarkOrphaned(low_priority_scene_tx, document_id),
                         [type |-> "DeleteDocument", document_id |-> document_id])
            /\ scene_tx' = MarkOrphaned(scene_tx, document_id)
            /\ scene_rx' = MarkOrphaned(scene_rx, document_id)
            /\ result_tx' = << >>
            /\ calls' = << >>
            /\ notifier' = << >>
            /\ swap_replies' = << >>
            /\ UNCHANGED <<last_scene_id, payload_rx, payload_buffer, capture,
                           scene_ids, paired, payloads_sent, builder_running, resume_rx>>

\* ApiMsg::ClearNamespace (lines 719-722)
ClearNamespace(namespace_id) ==
    /\ Receive
    /\ pc' = "drain"
    /\ handled' = [op |-> "ClearNamespace", document_id |-> NoDocument,
                   namespace_id |-> namespace_id]
    /\ LET keep == { did \in DocIds : did[1] # namespace_id }
       IN  /\ documents' = MapRetain(documents, keep)
           /\ fresh' = MapRetain(fresh, keep)
           /\ fresh_any_scroll' = MapRetain(fresh_any_scroll, keep)
    /\ result_tx' = << >>
    /\ calls' = << >>
    /\ notifier' = << >>
    /\ swap_replies' = << >>
    /\ UNCHANGED <<last_scene_id, payload_rx, payload_buffer, scene_tx,
                   low_priority_scene_tx, scene_rx, capture, scene_ids,
                   paired, payloads_sent, builder_running, resume_rx>>

\* The flags of ClearCache; ClearCache::all() of line 732 is every flag.
ClearCache_all == { "IMAGES", "GLYPHS", "RENDER_TASKS" }

\* A MemoryPressure that lets the consumer go on rendering
MemoryPressureKeepsRendering ==
    /\ Receive
    /\ pc' = "drain"
    /\ handled' = [op |-> "MemoryPressure", document_id |-> NoDocument,
                   cleared |-> ClearCache_all]
    /\ result_tx' = << [type |-> "UpdateResources", cancel_rendering |-> FALSE] >>
    /\ calls' = << >>
    /\ notifier' = << [type |-> "wake_up"] >>
    /\ swap_replies' = << >>
    /\ UNCHANGED <<documents, last_scene_id, payload_rx, payload_buffer,
                   scene_tx, low_priority_scene_tx, scene_rx, capture,
                   scene_ids, paired, payloads_sent, builder_running, fresh, fresh_any_scroll, resume_rx>>

\* ApiMsg::MemoryPressure (lines 723-741).  handled.cleared is the mask that
\* resource_cache.clear was called with.
MemoryPressure ==
    /\ Receive
    /\ pc' = "drain"
    /\ handled' = [op |-> "MemoryPressure", document_id |-> NoDocument,
                   cleared |-> ClearCache_all]
    /\ result_tx' = << [type |-> "UpdateResources", cancel_rendering |-> TRUE] >>
    /\ calls' = << >>
    /\ notifier' = << [type |-> "wake_up"] >>
    /\ swap_replies' = << >>
    /\ UNCHANGED <<documents, last_scene_id, payload_rx, payload_buffer,
                   scene_tx, low_priority_scene_tx, scene_rx, capture,
                   scene_ids, paired, payloads_sent, builder_running, fresh, fresh_any_scroll, resume_rx>>

\* A make_unique_scene_id that hands out the id before the increment
make_unique_scene_id_before_increment(id) == id

\* make_unique_scene_id (lines 545-549)
make_unique_scene_id(id) == id + 1

\* doc.view, as far as the Document of the model keeps it
DocumentView(doc) ==
    [ pan |-> doc.pan,
      window_empty |-> doc.window_empty,
      page_zoom_factor |-> doc.page_zoom_factor ]

\* A SceneRequest with the view of a new document
SceneRequest_with_new_view(view, scene_id) ==
    [view |-> DocumentView(Document_new(FALSE)), scene_id |-> scene_id]

\* The SceneRequest of lines 910-915
SceneRequest(view, scene_id) == [view |-> view, scene_id |-> scene_id]

\* The calls of process_scene_msg that the loop of lines 870-879 makes
scene_msg_calls(scene_ops) ==
    [i \in 1..Len(scene_ops) |->
        [call |-> "process_scene_msg", message |-> scene_ops[i].type]]

\* RenderBackend::prepare_transaction (lines 841-925) from its loop over
\* the scene ops (line 870) to its end and, on the fast path,
\* update_document; the step is taken when the payloads it reads are there.
\* calls_before: the calls the step made before the loop.
transaction_from_scene_ops(document_id, transaction_msg, sampled, flushed, calls_before) ==
    LET st0 == [ documents |-> documents,
                 txn |-> Transaction_new(document_id, transaction_msg),
                 payload_buffer |-> payload_buffer,
                 payload_rx |-> payload_rx,
                 paired |-> paired,
                 panicked |-> FALSE,
                 blocked |-> FALSE ]
        st == process_scene_ops(st0, document_id, transaction_msg.scene_ops)
        \* create_blob_scene_builder_requests: one request per blob image
        txn == [st.txn EXCEPT !.blob_requests =
                     get_blob_image_updates(st.txn.resource_updates)]
        scene_id == make_unique_scene_id(last_scene_id)
        channel == IF transaction_msg.low_priority
                   THEN low_priority_scene_tx ELSE scene_tx
        request == [ type |-> "Transaction",
                     txn |-> [txn EXCEPT !.request_scene_build =
                                 IF should_build_scene(txn)
                                 THEN Some(SceneRequest(
                                        DocumentView(st.documents[document_id]),
                                        scene_id))
                                 ELSE None],
                     seq |-> scene_id,
                     low |-> transaction_msg.low_priority,
                     orphaned |-> FALSE ]
    IN  /\ ~st.blocked
        /\ IF st.panicked \/ document_id \notin DOMAIN documents
           THEN Panic        \* expect / unwrap of lines 442, 907, 952
           ELSE IF takes_fast_path(transaction_msg, txn)
           THEN LET u == update_document(st.documents[document_id],
                             document_id, txn.resource_updates,
                             txn.frame_ops, txn.notifications,
                             txn.build_frame, txn.render_frame, FALSE,
                             sampled, flushed)
                IN  /\ pc' = "drain"
                    /\ documents' = [st.documents EXCEPT ![document_id] = u.doc]
                    /\ result_tx' = u.results
                    /\ calls' = calls_before
                            \o scene_msg_calls(transaction_msg.scene_ops)
                            \o u.calls
                    /\ notifier' = u.notes
                    /\ swap_replies' = u.replies
                    /\ payload_buffer' = st.payload_buffer
                    /\ payload_rx' = st.payload_rx
                    /\ paired' = st.paired
                    /\ fresh' = [fresh EXCEPT ![document_id] =
                             FreshAfter(@, st.documents[document_id], FALSE,
                                        u, txn.resource_updates, flushed,
                                        FALSE)]
                    /\ fresh_any_scroll' =
                         [fresh_any_scroll EXCEPT ![document_id] =
                             FreshAfter(@, st.documents[document_id], FALSE,
                                        u, txn.resource_updates, flushed,
                                        TRUE)]
                    /\ UNCHANGED <<last_scene_id, scene_tx,
                                   low_priority_scene_tx, scene_rx, capture,
                                   scene_ids, payloads_sent, builder_running, resume_rx>>
           ELSE IF ~builder_running
           THEN Panic        \* send(..).unwrap() of line 924
           ELSE /\ last_scene_id < MaxSceneId
                /\ Len(scene_ids) < MaxIssued
                /\ Len(channel) < MaxQueue
                /\ pc' = "drain"
                /\ last_scene_id' = scene_id
                /\ scene_ids' = IF should_build_scene(txn)
                                THEN Append(scene_ids, scene_id)
                                ELSE scene_ids
                /\ documents' = st.documents
                /\ IF transaction_msg.low_priority
                   THEN /\ low_priority_scene_tx' = send(channel, request)
                        /\ UNCHANGED scene_tx
                   ELSE /\ scene_tx' = send(channel, request)
                        /\ UNCHANGED low_priority_scene_tx
                /\ result_tx' = << >>
                /\ calls' = calls_before
                        \o scene_msg_calls(transaction_msg.scene_ops)
                        \o << [call |-> "send",
                                low |-> transaction_msg.low_priority] >>
                /\ notifier' = << >>
                /\ swap_replies' = << >>
                /\ payload_buffer' = st.payload_buffer
                /\ payload_rx' = st.payload_rx
                /\ paired' = st.paired
                /\ UNCHANGED <<scene_rx, capture, payloads_sent, builder_running, fresh,
                               fresh_any_scroll, resume_rx>>

\* RenderBackend::prepare_transaction for an ApiMsg::UpdateDocument that
\* api_rx.recv() returns (lines 828-835)
prepare_transaction(document_id, transaction_msg, sampled, flushed) ==
    /\ Receive
    /\ handled' = [op |-> "UpdateDocument", document_id |-> document_id]
    /\ transaction_from_scene_ops(document_id, transaction_msg, sampled, flushed,
            << pre_scene_building_update(transaction_msg.resource_updates) >>)

\* The body of the try_recv loop (lines 562-619) for one Transaction
\* result.
DrainResult(sampled, flushed) ==
    /\ pc = "drain"
    /\ scene_rx # << >>
    /\ Head(scene_rx).type = "Transaction"
    /\ scene_rx' = Tail(scene_rx)
    /\ LET msg == Head(scene_rx)
           txn == msg.txn
           document_id == txn.document_id
           has_built_scene == IsSome(txn.built_scene)
       IN  /\ handled' = [op |-> "Transaction", document_id |-> document_id]
           /\ IF document_id \in DOMAIN documents
              THEN LET doc0 == append_removed_pipelines(
                                    documents[document_id],
                                    txn.removed_pipelines)
                       doc == IF has_built_scene
                              THEN new_async_scene_ready(doc0,
                                                         txn.built_scene[1])
                              ELSE doc0
                       u == update_document(doc, document_id,
                                txn.resource_updates, txn.frame_ops,
                                txn.notifications, txn.build_frame,
                                txn.render_frame, has_built_scene, sampled,
                                flushed)
                   IN  /\ documents' = [documents EXCEPT ![document_id] = u.doc]
                       /\ swap_replies' = (IF msg.reply THEN << "Complete" >>
                                           ELSE << >>) \o u.replies
                       /\ result_tx' = u.results
                       /\ calls' = u.calls
                       /\ notifier' = u.notes
                       /\ fresh' = [fresh EXCEPT ![document_id] =
                                FreshAfter(@, doc, has_built_scene, u,
                                           txn.resource_updates, flushed,
                                           FALSE)]
                       /\ fresh_any_scroll' =
                            [fresh_any_scroll EXCEPT ![document_id] =
                                FreshAfter(@, doc, has_built_scene, u,
                                           txn.resource_updates, flushed,
                                           TRUE)]
              ELSE /\ swap_replies' = IF msg.reply THEN << "Aborted" >>
                                      ELSE << >>
                   /\ result_tx' = << >>
                   /\ calls' = << >>
                   /\ notifier' = << >>
                   /\ UNCHANGED <<documents, fresh, fresh_any_scroll>>
    /\ UNCHANGED <<last_scene_id, payload_rx, payload_buffer, scene_tx,
                   low_priority_scene_tx, capture, pc, scene_ids, paired,
                   payloads_sent, builder_running, msgs_received, resume_rx>>

\* ApiMsg::FlushSceneBuilder (lines 668-670)
FlushSceneBuilder ==
    /\ Receive
    /\ handled' = [op |-> "FlushSceneBuilder", document_id |-> NoDocument]
    /\ IF ~builder_running
       THEN Panic       \* send(..).unwrap(): the receiver is gone
       ELSE /\ Len(low_priority_scene_tx) < MaxQueue
            /\ pc' = "drain"
            /\ low_priority_scene_tx' =
                    send(low_priority_scene_tx, [type |-> "Flush"])
            /\ result_tx' = << >>
            /\ calls' = << >>
            /\ notifier' = << >>
            /\ swap_replies' = << >>
            /\ UNCHANGED <<documents, last_scene_id, payload_rx,
                           payload_buffer, scene_tx, scene_rx, capture,
                           scene_ids, paired, payloads_sent, fresh,
                           fresh_any_scroll, builder_running, resume_rx>>

\* The try_recv loop receives FlushComplete(tx) (lines 612-614): tx.send(())
DrainFlushComplete ==
    /\ pc = "drain"
    /\ scene_rx # << >>
    /\ Head(scene_rx).type = "FlushComplete"
    /\ scene_rx' = Tail(scene_rx)
    /\ handled' = [op |-> "FlushComplete", document_id |-> NoDocument]
    /\ swap_replies' = << "FlushComplete" >>
    /\ result_tx' = << >>
    /\ calls' = << >>
    /\ notifier' = << >>
    /\ UNCHANGED <<documents, last_scene_id, payload_rx, payload_buffer,
                   scene_tx, low_priority_scene_tx, capture, pc, scene_ids,
                   paired, payloads_sent, fresh, fresh_any_scroll,
                   msgs_received, builder_running, resume_rx>>

\* A loop that takes a Stopped and goes on
DrainStoppedContinues ==
    /\ pc = "drain"
    /\ scene_rx # << >>
    /\ Head(scene_rx).type = "Stopped"
    /\ scene_rx' = Tail(scene_rx)
    /\ handled' = [op |-> "Stopped", document_id |-> NoDocument]
    /\ UNCHANGED <<documents, last_scene_id, payload_rx, payload_buffer,
                   scene_tx, low_priority_scene_tx, result_tx, notifier,
                   swap_replies, capture, pc, scene_ids, paired,
                   payloads_sent, fresh, fresh_any_scroll, msgs_received,
                   builder_running, calls, resume_rx>>

\* The try_recv loop receives Stopped (lines 615-617):
\* panic!("We haven't sent a Stop yet, how did we get a Stopped back?")
DrainStopped ==
    /\ pc = "drain"
    /\ scene_rx # << >>
    /\ Head(scene_rx).type = "Stopped"
    /\ handled' = [op |-> "Stopped", document_id |-> NoDocument]
    /\ msgs_received' = msgs_received
    /\ Panic

\* `let _ = self.low_priority_scene_tx.send(SceneBuilderRequest::Stop)` of
\* line 632: an error of the send is ignored
send_Stop(channel) ==
    IF builder_running THEN send(channel, [type |-> "Stop"]) ELSE channel

\* ApiMsg::ShutDown (lines 825-827): process_api_msg returns false, the
\* loop of line 559 ends, run sends Stop and waits in scene_rx.recv()
ShutDown ==
    /\ Receive
    /\ handled' = [op |-> "ShutDown", document_id |-> NoDocument]
    /\ pc' = "stopping"
    /\ low_priority_scene_tx' = send_Stop(low_priority_scene_tx)
    /\ result_tx' = << >>
    /\ calls' = << >>
    /\ notifier' = << >>
    /\ swap_replies' = << >>
    /\ UNCHANGED <<documents, last_scene_id, payload_rx, payload_buffer,
                   scene_tx, scene_rx, capture, scene_ids, paired,
                   payloads_sent, fresh, fresh_any_scroll, builder_running, resume_rx>>

\* api_rx.recv() returns Err (line 627): every sender of the API channel is
\* gone; the loop ends as for ShutDown
ApiDisconnected ==
    /\ pc = "recv"
    /\ handled' = [op |-> "ApiDisconnected", document_id |-> NoDocument]
    /\ pc' = "stopping"
    /\ low_priority_scene_tx' = send_Stop(low_priority_scene_tx)
    /\ result_tx' = << >>
    /\ calls' = << >>
    /\ notifier' = << >>
    /\ swap_replies' = << >>
    /\ UNCHANGED <<documents, last_scene_id, payload_rx, payload_buffer,
                   scene_tx, scene_rx, capture, scene_ids, paired,
                   payloads_sent, fresh, fresh_any_scroll, msgs_received,
                   builder_running, resume_rx>>

\* A shutdown loop in which every result but FlushComplete and Stopped is
\* fatal
shutdown_drain_fatal(msg, debug) ==
    CASE msg.type = "FlushComplete" -> "answer"
      [] msg.type = "Stopped" -> "break"
      [] OTHER -> "panic"

\* The match of the shutdown loop (lines 636-646).  debug: the build has
\* debug assertions, and debug_assert!(false) of line 640 panics.
shutdown_drain(msg, debug) ==
    CASE msg.type = "FlushComplete" -> IF debug THEN "panic" ELSE "answer"
      [] msg.type = "Stopped" -> "break"
      [] OTHER -> "continue"

\* One turn of the shutdown loop (lines 635-647) and, when the loop ends,
\* notifier.shut_down() (line 649) and the return of run.  scene_rx.recv()
\* waits while the channel is empty and the builder lives, and returns Err
\* when the channel is empty and the builder has ended.
ShutdownDrain(debug) ==
    /\ pc = "stopping"
    /\ result_tx' = << >>
    /\ calls' = << >>
    /\ IF scene_rx = << >>
       THEN /\ ~builder_running
            /\ ~debug
            /\ pc' = "done"
            /\ handled' = [op |-> "Disconnected", document_id |-> NoDocument]
            /\ notifier' = << [type |-> "shut_down"] >>
            /\ swap_replies' = << >>
            /\ UNCHANGED scene_rx
       ELSE LET msg == Head(scene_rx)
                r == shutdown_drain(msg, debug)
            IN  /\ debug => msg.type = "FlushComplete"
                /\ scene_rx' = Tail(scene_rx)
                /\ handled' = [op |-> msg.type,
                               document_id |-> IF msg.type = "Transaction"
                                               THEN msg.txn.document_id
                                               ELSE NoDocument]
                /\ pc' = CASE r = "panic" -> "panicked"
                           [] r = "break" -> "done"
                           [] OTHER -> "stopping"
                /\ swap_replies' = IF r = "answer" THEN << "FlushComplete" >>
                                   ELSE << >>
                /\ notifier' = IF r = "break" THEN << [type |-> "shut_down"] >>
                               ELSE << >>
    /\ UNCHANGED <<documents, last_scene_id, payload_rx, payload_buffer,
                   scene_tx, low_priority_scene_tx, capture, scene_ids, paired,
                   payloads_sent, fresh, fresh_any_scroll, msgs_received,
                   builder_running, resume_rx>>

----------------------------------------------------------------------------
(* The scene builder thread (scene_builder.rs): it takes the request at    *)
(* the head of one of its two channels and answers a Transaction with a    *)
(* built transaction.  has_root: whether the scene it built has a root     *)
(* pipeline; reply: whether the result carries a SceneSwapResult channel.  *)
(* It answers a Flush with FlushComplete and ends on a Stop.               *)

\* SceneBuilderResult::FlushComplete and SceneBuilderResult::Stopped.
\* prompted (history): the builder says Stopped in answer to a Stop.
FlushComplete == [type |-> "FlushComplete"]
Stopped(prompted) == [type |-> "Stopped", prompted |-> prompted]

BuiltTransaction(request, has_root, reply) ==
    [ type |-> "Transaction",
      txn |-> [ document_id |-> request.txn.document_id,
                built_scene |-> IF IsSome(request.txn.request_scene_build)
                                THEN Some([has_root |-> has_root])
                                ELSE None,
                resource_updates |-> request.txn.resource_updates,
                frame_ops |-> request.txn.frame_ops,
                notifications |-> request.txn.notifications,
                removed_pipelines |-> request.txn.removed_pipelines,
                build_frame |-> request.txn.build_frame,
                render_frame |-> request.txn.render_frame ],
      reply |-> reply,
      seq |-> request.seq,
      low |-> request.low,
      orphaned |-> request.orphaned ]

\* The answer to one LoadScene of a LoadScenes request
LoadedTransaction(item, reply) ==
    [ type |-> "Transaction",
      txn |-> [ document_id |-> item.document_id,
                built_scene |-> Some([has_root |-> item.has_root]),
                resource_updates |-> << >>,
                frame_ops |-> << >>,
                notifications |-> << >>,
                removed_pipelines |-> << >>,
                build_frame |-> TRUE,
                render_frame |-> item.build_frame ],
      reply |-> reply,
      seq |-> 0,
      low |-> TRUE,
      orphaned |-> FALSE ]

SceneBuilder(low, has_root, reply) ==
    LET channel == IF low THEN low_priority_scene_tx ELSE scene_tx
        request == Head(channel)
    IN  /\ builder_running
        /\ channel # << >>
        /\ builder_running' = (request.type # "Stop")
        /\ IF low THEN /\ low_priority_scene_tx' = Tail(channel)
                       /\ UNCHANGED scene_tx
                  ELSE /\ scene_tx' = Tail(channel)
                       /\ UNCHANGED low_priority_scene_tx
        /\ CASE request.type = "Transaction" ->
                /\ IsSome(request.txn.request_scene_build) \/ (~has_root /\ ~reply)
                /\ scene_rx' = Append(scene_rx,
                                      BuiltTransaction(request, has_root, reply))
             [] request.type = "LoadScenes" ->
                /\ ~has_root
                /\ scene_rx' = scene_rx \o
                        [i \in 1..Len(request.scenes) |->
                            LoadedTransaction(request.scenes[i], reply)]
             [] request.type = "Flush" ->
                /\ ~has_root /\ ~reply
                /\ scene_rx' = Append(scene_rx, FlushComplete)
             [] request.type = "Stop" ->
                \* the thread ends; reply: it answers Stopped before it does
                /\ ~has_root
                /\ scene_rx' = IF reply THEN Append(scene_rx, Stopped(TRUE))
                                ELSE scene_rx
             [] OTHER ->
                \* DeleteDocument: the builder forgets the document
                /\ ~has_root /\ ~reply
                /\ UNCHANGED scene_rx
        /\ UNCHANGED <<documents, last_scene_id, payload_rx, payload_buffer,
                       result_tx, notifier, swap_replies, capture, pc, handled,
                       scene_ids, paired, payloads_sent, fresh,
                       fresh_any_scroll, msgs_received, calls, resume_rx>>

\* The builder thread ends without a Stop and says Stopped.
SceneBuilderStopsUnprompted ==
    /\ builder_running
    /\ pc \in { "drain", "recv" }
    /\ builder_running' = FALSE
    /\ scene_rx' = Append(scene_rx, Stopped(FALSE))
    /\ UNCHANGED <<documents, last_scene_id, payload_rx, payload_buffer,
                   scene_tx, low_priority_scene_tx, result_tx, notifier,
                   swap_replies, capture, pc, handled, scene_ids, paired,
                   payloads_sent, fresh, fresh_any_scroll, msgs_received, calls, resume_rx>>

----------------------------------------------------------------------------
(* Capture and replay (save_capture, load_capture, lines 1230-1414).       *)

\* The orders in which a HashMap with these keys can be iterated
Orders(S) ==
    { o \in [1..Cardinality(S) -> S] :
        \A i, j \in 1..Cardinality(S) : o[i] = o[j] => i = j }

\* DebugCommand::FetchDocuments (lines 760-763): get_docs_for_debugger takes
\* &self; the dump goes to the consumer.
FetchDocuments ==
    /\ Receive
    /\ pc' = "drain"
    /\ handled' = [op |-> "FetchDocuments", document_id |-> NoDocument]
    /\ result_tx' = << [type |-> "DebugOutput", output |-> "FetchDocuments"] >>
    /\ calls' = << >>
    /\ notifier' = << [type |-> "wake_up"] >>
    /\ swap_replies' = << >>
    /\ UNCHANGED <<documents, last_scene_id, payload_rx, payload_buffer,
                   scene_tx, low_priority_scene_tx, scene_rx, capture,
                   scene_ids, paired, payloads_sent, builder_running, fresh,
                   fresh_any_scroll, resume_rx>>

\* DebugCommand::FetchClipScrollTree (lines 764-767)
FetchClipScrollTree ==
    /\ Receive
    /\ pc' = "drain"
    /\ handled' = [op |-> "FetchClipScrollTree", document_id |-> NoDocument]
    /\ result_tx' = << [type |-> "DebugOutput",
                        output |-> "FetchClipScrollTree"] >>
    /\ calls' = << >>
    /\ notifier' = << [type |-> "wake_up"] >>
    /\ swap_replies' = << >>
    /\ UNCHANGED <<documents, last_scene_id, payload_rx, payload_buffer,
                   scene_tx, low_priority_scene_tx, scene_rx, capture,
                   scene_ids, paired, payloads_sent, builder_running, fresh,
                   fresh_any_scroll, resume_rx>>

\* DebugCommand::SaveCapture(root, bits): RenderBackend::save_capture.
\* dir_ok: root is a directory, or fs::create_dir_all(&root) makes it one
\* (lines 1243-1247).
save_capture(bits, dir_ok) ==
    /\ Receive
    /\ handled' = [op |-> "SaveCapture", document_id |-> NoDocument]
    /\ IF ~dir_ok
       THEN Panic       \* panic!("Unable to create capture dir: {:?}", e)
       ELSE IF "FRAME" \in bits
          /\ \E d \in DOMAIN documents : ~documents[d].frame_builder
       THEN Panic       \* build_frame: frame_builder.as_mut().unwrap()
       ELSE /\ pc' = "drain"
            /\ documents' = IF "FRAME" \in bits
                            THEN [d \in DOMAIN documents |->
                                    build_frame(documents[d])]
                            ELSE documents
            /\ fresh' = IF "FRAME" \in bits
                        THEN [d \in DOMAIN documents |-> TRUE] ELSE fresh
            /\ fresh_any_scroll' =
                    IF "FRAME" \in bits
                    THEN [d \in DOMAIN documents |-> TRUE]
                    ELSE fresh_any_scroll
            /\ capture' = Some(
                    [ documents |-> [d \in DOMAIN documents |->
                            [ pan |-> documents[d].pan,
                              window_empty |-> documents[d].window_empty,
                              page_zoom_factor |->
                                    documents[d].page_zoom_factor,
                              has_root |-> documents[d].has_root,
                              frame_id |-> documents[d].frame_id ]],
                      last_scene_id |-> last_scene_id,
                      scene |-> "SCENE" \in bits,
                      frame |-> "FRAME" \in bits ])
            /\ result_tx' =
                    (IF "FRAME" \in bits
                     THEN << UpdateGpuCache,
                             [type |-> "UpdateResources",
                              cancel_rendering |-> FALSE] >>
                     ELSE << >>)
                    \o << [type |-> "DebugOutput", output |-> "SaveCapture"] >>
            /\ calls' = << >>
            /\ notifier' = << [type |-> "wake_up"] >>
            /\ swap_replies' = << >>
            /\ UNCHANGED <<last_scene_id, payload_rx, payload_buffer, scene_tx,
                           low_priority_scene_tx, scene_rx, scene_ids, paired,
                           payloads_sent, builder_running, resume_rx>>

\* A load_capture that keeps the table it finds
documents_kept(table) == table

\* self.documents.clear() (line 1338)
documents_clear(table) == EmptyMap

\* The Document that load_capture makes of a captured view and scene
\* (lines 1351-1363)
loaded_document(plain) ==
    [ Document_new(plain.window_empty) EXCEPT
        !.pan = plain.pan,
        !.page_zoom_factor = plain.page_zoom_factor,
        !.has_root = plain.has_root,
        !.frame_builder = TRUE ]

\* DebugCommand::LoadCapture(root, tx): RenderBackend::load_capture.
\* order: the order in which backend.documents is iterated.
load_capture(order) ==
    /\ Receive
    /\ handled' = [op |-> "LoadCapture", document_id |-> NoDocument]
    /\ IF capture = None
       THEN order = << >> /\ Panic      \* expect("Unable to open backend.ron")
       ELSE LET backend == capture[1]
                n == Len(order)
                scenes_to_build ==
                    [i \in 1..n |->
                        [ document_id |-> order[i],
                          scene_id |-> backend.last_scene_id + i,
                          has_root |-> backend.documents[order[i]].has_root,
                          build_frame |-> ~backend.frame ]]
                published(i) ==
                    IF backend.frame
                    THEN << UpdateGpuCache,
                            PublishDocument(order[i],
                                backend.documents[order[i]].frame_id, TRUE) >>
                    ELSE << >>
                all_published[i \in 0..n] ==
                    IF i = 0 THEN << >>
                    ELSE all_published[i - 1] \o published(i)
            IN  /\ order \in Orders(DOMAIN backend.documents)
                /\ IF n > 0 /\ ~backend.scene
                   THEN Panic           \* expect("Unable to open scene")
                   ELSE IF n > 0 /\ ~builder_running
                   THEN Panic           \* send(..).unwrap() of line 1407
                   ELSE /\ n > 0 => /\ Len(low_priority_scene_tx) < MaxQueue
                                    /\ Len(scene_ids) + n <= MaxIssued
                        /\ pc' = "drain"
                        /\ documents' =
                                [d \in DOMAIN documents_clear(documents)
                                        \cup DOMAIN backend.documents |->
                                    IF d \in DOMAIN backend.documents
                                    THEN loaded_document(backend.documents[d])
                                    ELSE documents_clear(documents)[d]]
                        /\ fresh' = [d \in DOMAIN documents' |-> FALSE]
                        /\ fresh_any_scroll' =
                                [d \in DOMAIN documents' |-> FALSE]
                        /\ result_tx' =
                                << [type |-> "DebugOutput",
                                    output |-> "LoadCapture"] >>
                                \o all_published[n]
                        \* *frame_counter += 1 of line 776
                        /\ calls' = << [call |-> "frame_counter"] >>
                        /\ notifier' =
                                IF backend.frame
                                THEN [i \in 1..n |->
                                        new_frame_ready(order[i], FALSE, TRUE)]
                                ELSE << >>
                        /\ swap_replies' = << >>
                        /\ scene_ids' = scene_ids \o
                                [i \in 1..n |-> scenes_to_build[i].scene_id]
                        /\ low_priority_scene_tx' =
                                IF n > 0
                                THEN send(low_priority_scene_tx,
                                          [type |-> "LoadScenes",
                                           scenes |-> scenes_to_build])
                                ELSE low_priority_scene_tx
                        /\ UNCHANGED <<last_scene_id, payload_rx,
                                       payload_buffer, scene_tx, scene_rx,
                                       capture, paired, payloads_sent, builder_running, resume_rx>>

----------------------------------------------------------------------------
(* The messages the producer sends.                                        *)

Scroll(moves) == [type |-> "Scroll", moves |-> moves]
ScrollNodeWithId(moves) == [type |-> "ScrollNodeWithId", moves |-> moves]
SetPan(pan) == [type |-> "SetPan", pan |-> pan]
HitTest == [type |-> "HitTest"]
UpdateDynamicProperties == [type |-> "UpdateDynamicProperties"]

SetDisplayList(key) ==
    [type |-> "SetDisplayList", key |-> key, preserve_frame_state |-> TRUE]
\* SetDisplayList with preserve_frame_state = false
SetDisplayListDiscarding(key) ==
    [type |-> "SetDisplayList", key |-> key, preserve_frame_state |-> FALSE]
SetRootPipeline == [type |-> "SetRootPipeline", pipeline_id |-> "p"]
UpdateEpoch == [type |-> "UpdateEpoch", pipeline_id |-> "p"]
SetWindowParameters(window_empty) ==
    [type |-> "SetWindowParameters", window_empty |-> window_empty]
SetPageZoom(factor) == [type |-> "SetPageZoom", factor |-> factor]

UpdateImage(blob) == [type |-> "UpdateImage", blob |-> blob]
AddImage(blob) == [type |-> "AddImage", blob |-> blob]

TransactionMsg(scene_ops, resource_updates, frame_ops, generate_frame, use_scene_builder_thread, low_priority) ==
    [ scene_ops |-> scene_ops,
      resource_updates |-> resource_updates,
      frame_ops |-> frame_ops,
      generate_frame |-> generate_frame,
      use_scene_builder_thread |-> use_scene_builder_thread,
      low_priority |-> low_priority,
      notifications |-> << >> ]

\* Transaction::notify (api): the transaction with these requests
WithNotifications(transaction_msg, notifications) ==
    [transaction_msg EXCEPT !.notifications = notifications]

\* The transaction has frame ops only and is not routed to the builder
IsFrameOnly(t) ==
    /\ t.scene_ops = << >>
    /\ get_blob_image_updates(t.resource_updates) = << >>
    /\ ~t.use_scene_builder_thread

AllOrders == UNION { Orders(S) : S \in SUBSET DocIds }

----------------------------------------------------------------------------
(* Spec: the flow of transactions of two documents between the producer,   *)
(* the backend and the scene builder.                                      *)

FlowTransactions ==
    { TransactionMsg(<< SetRootPipeline >>, << >>, << >>, TRUE, FALSE, l) :
        l \in BOOLEAN }
    \cup
    { TransactionMsg(<< >>, << >>, << SetPan(1) >>, TRUE, r, FALSE) :
        r \in BOOLEAN }

Next ==
    \/ TryRecvEmpty
    \/ DrainResult(<< >>, FALSE)
    \/ \E d \in DocIds : AddDocument(d, FALSE)
    \/ \E d \in DocIds : DeleteDocument(d)
    \/ \E d \in DocIds, t \in FlowTransactions :
            prepare_transaction(d, t, << >>, FALSE)
    \/ \E low \in BOOLEAN, has_root \in BOOLEAN, reply \in BOOLEAN :
            SceneBuilder(low, has_root, reply)

Spec == Init /\ [][Next]_vars

----------------------------------------------------------------------------
(* SpecFrame: one document and every kind of transaction that touches the  *)
(* validity of its frame; the results of the builder are applied with and  *)
(* without ops of a sampler.                                               *)

TheDocument == << 1, 1 >>

FrameOpLists ==
    { << >>, << HitTest >>, << SetPan(1) >> }
    \cup { << Scroll(m) >> : m \in BOOLEAN }
    \cup { << ScrollNodeWithId(m) >> : m \in BOOLEAN }

FrameTransactions ==
    { TransactionMsg(<< >>, << >>, ops, g, FALSE, FALSE) :
        ops \in FrameOpLists, g \in BOOLEAN }
    \cup
    { TransactionMsg(<< >>, << UpdateImage(FALSE) >>, << >>, g, FALSE, FALSE) :
        g \in BOOLEAN }
    \cup
    { TransactionMsg(<< SetWindowParameters(e) >>, << >>, << >>, TRUE, FALSE,
                     FALSE) : e \in BOOLEAN }
    \cup
    { TransactionMsg(<< SetRootPipeline >>, << >>, << >>, TRUE, FALSE, FALSE),
      TransactionMsg(<< >>, << UpdateImage(TRUE) >>, << >>, TRUE, FALSE, FALSE),
      TransactionMsg(<< >>, << >>, << SetPan(1) >>, TRUE, TRUE, FALSE) }

\* The transactions whose update_document finds the dynamic properties
\* changed: they set properties
FlushTransactions ==
    { TransactionMsg(<< >>, << >>, << UpdateDynamicProperties >>, g, FALSE,
                     FALSE) : g \in BOOLEAN }

\* What sampler.sample() can return: nothing, or a scroll of a node
Samples == { << >>, << ScrollNodeWithId(TRUE) >> }

NextFrame ==
    \/ TryRecvEmpty
    \/ \E sampled \in Samples, flushed \in BOOLEAN :
            DrainResult(sampled, flushed)
    \/ AddDocument(TheDocument, FALSE)
    \/ \E t \in FrameTransactions :
            prepare_transaction(TheDocument, t, << >>, FALSE)
    \/ \E t \in FlushTransactions :
            prepare_transaction(TheDocument, t, << >>, TRUE)
    \/ \E has_root \in BOOLEAN, reply \in BOOLEAN :
            SceneBuilder(FALSE, has_root, reply)

SpecFrame == Init /\ [][NextFrame]_vars

----------------------------------------------------------------------------
(* SpecReplay: one document, transactions, capture and replay.             *)

ReplayTransactions ==
    { TransactionMsg(<< SetRootPipeline >>, << >>, << >>, TRUE, FALSE, FALSE),
      TransactionMsg(<< >>, << >>, << SetPan(1) >>, TRUE, FALSE, FALSE) }

NextReplay ==
    \/ TryRecvEmpty
    \/ DrainResult(<< >>, FALSE)
    \/ AddDocument(TheDocument, FALSE)
    \/ DeleteDocument(TheDocument)
    \/ MemoryPressure
    \/ \E t \in ReplayTransactions :
            prepare_transaction(TheDocument, t, << >>, FALSE)
    \/ FetchDocuments
    \/ FetchClipScrollTree
    \/ \E bits \in { { "SCENE" }, { "SCENE", "FRAME" } }, dir_ok \in BOOLEAN :
            save_capture(bits, dir_ok)
    \/ \E order \in AllOrders : load_capture(order)
    \/ \E low \in BOOLEAN, has_root \in BOOLEAN, reply \in BOOLEAN :
            SceneBuilder(low, has_root, reply)

SpecReplay == Init /\ [][NextReplay]_vars

----------------------------------------------------------------------------
(* SpecPayload: display lists and their payloads.  The producer sends the  *)
(* payloads on the payload channel and the SetDisplayList messages in      *)
(* transactions, in any interleaving; other requests come in between.      *)

PayloadTransactions ==
    { TransactionMsg(<< SetDisplayList(k) >>, << >>, << >>, FALSE, FALSE,
                     FALSE) : k \in Keys }
    \cup
    { TransactionMsg(<< SetDisplayList(k1), SetDisplayList(k2) >>, << >>,
                     << >>, FALSE, FALSE, FALSE) : k1 \in Keys, k2 \in Keys }

NextPayload ==
    \/ TryRecvEmpty
    \/ \E k \in Keys : SendPayload(k)
    \/ AddDocument(TheDocument, FALSE)
    \/ DeleteDocument(TheDocument)
    \/ ClearNamespace(1)
    \/ MemoryPressure
    \/ \E t \in PayloadTransactions :
            prepare_transaction(TheDocument, t, << >>, FALSE)
    \/ save_capture({ "SCENE" }, TRUE)
    \/ \E order \in AllOrders : load_capture(order)

SpecPayload == Init /\ [][NextPayload]_vars

----------------------------------------------------------------------------
(* SpecScene: one document, its display lists with their payloads, the     *)
(* scenes built from them and swapped in, and scrolls of the node in       *)
(* between.                                                                *)

SceneTransactions ==
    { TransactionMsg(<< SetDisplayList("a"), SetRootPipeline >>, << >>, << >>,
                     g, FALSE, FALSE) : g \in BOOLEAN }
    \cup
    { TransactionMsg(<< m >>, << >>, << >>, TRUE, FALSE, FALSE) :
        m \in { SetDisplayList("a"), SetDisplayListDiscarding("a") } }
    \cup
    { TransactionMsg(<< >>, << >>, << ScrollNodeWithId(TRUE) >>, TRUE, FALSE,
                     FALSE) }

NextScene ==
    \/ TryRecvEmpty
    \/ DrainResult(<< >>, FALSE)
    \/ SendPayload("a")
    \/ \E window_empty \in BOOLEAN : AddDocument(TheDocument, window_empty)
    \/ \E t \in SceneTransactions :
            prepare_transaction(TheDocument, t, << >>, FALSE)
    \/ \E has_root \in BOOLEAN : SceneBuilder(FALSE, has_root, FALSE)

SpecScene == Init /\ [][NextScene]_vars

----------------------------------------------------------------------------
(* SpecShutdown: one document, transactions and flushes of the builder,    *)
(* and the end of run: by ShutDown or by the loss of the API channel.  The *)
(* builder answers the Stop, or ends without a word, or says Stopped       *)
(* without having been asked.                                              *)

ShutdownTransactions ==
    { TransactionMsg(<< SetRootPipeline >>, << >>, << >>, TRUE, FALSE, l) :
        l \in BOOLEAN }

NextShutdown ==
    \/ TryRecvEmpty
    \/ DrainResult(<< >>, FALSE)
    \/ DrainFlushComplete
    \/ DrainStopped
    \/ AddDocument(TheDocument, FALSE)
    \/ \E t \in ShutdownTransactions :
            prepare_transaction(TheDocument, t, << >>, FALSE)
    \/ FlushSceneBuilder
    \/ ShutDown
    \/ ApiDisconnected
    \/ \E debug \in BOOLEAN : ShutdownDrain(debug)
    \/ \E low \in BOOLEAN, has_root \in BOOLEAN, reply \in BOOLEAN :
            SceneBuilder(low, has_root, reply)
    \/ SceneBuilderStopsUnprompted

SpecShutdown == Init /\ [][NextShutdown]_vars

\* The two threads keep running: the backend thread takes the next turn of
\* a loop it is in whenever it can, and the builder thread takes the next
\* request whenever there is one.  The producer of API messages may stop
\* at any time.
ThreadsRun ==
    /\ WF_vars(TryRecvEmpty \/ DrainResult(<< >>, FALSE)
                \/ DrainFlushComplete \/ DrainStopped)
    /\ WF_vars(\E debug \in BOOLEAN : ShutdownDrain(debug))
    /\ WF_vars(\E low \in BOOLEAN, has_root \in BOOLEAN, reply \in BOOLEAN :
                    SceneBuilder(low, has_root, reply))

SpecShutdownLive == Init /\ [][NextShutdown]_vars /\ ThreadsRun

----------------------------------------------------------------------------
(* Frame validity (Document::process_frame_msg, update_document).          *)

\* C1, as the code has it: after every step the frame_is_valid flag of a
\* document is TRUE iff a frame was built since the last invalidating event.
\* The invalidating events are: a scene swap, a Scroll or ScrollNodeWithId
\* that moved a node (a Scroll only when the document has a hit tester), a
\* SetPan that changes the pan, an UpdateImage in the transaction, and a
\* flush of the dynamic properties that returns true.
FrameValidIffBuiltSinceInvalidation ==
    \A d \in DOMAIN documents : documents[d].frame_is_valid = fresh[d]

\* A frame that stayed valid over a scroll op that moved nothing
ValidAfterIdleScroll ==
    \E d \in DOMAIN documents :
        /\ handled.op \in { "UpdateDocument", "Transaction" }
        /\ documents[d].frame_is_valid
        /\ fresh[d]
        /\ ~fresh_any_scroll[d]

\* C1 as stated: every Scroll / ScrollNodeWithId op is an invalidating event.
FrameValidIffBuiltSinceAnyScroll ==
    \A d \in DOMAIN documents :
        documents[d].frame_is_valid = fresh_any_scroll[d]

----------------------------------------------------------------------------
(* Frame ids (new_async_scene_ready, AddDocument, load_capture).           *)

\* The step drains a result that swaps a built scene into document d
SwapsScene(d) ==
    /\ pc = "drain"
    /\ scene_rx # << >>
    /\ scene_rx' = Tail(scene_rx)
    /\ Head(scene_rx).txn.document_id = d
    /\ IsSome(Head(scene_rx).txn.built_scene)

\* The step puts a new Document under the id d
CreatesDocument(d) ==
    /\ msgs_received' = msgs_received + 1
    /\ pc' # "panicked"
    /\ \/ handled' = [op |-> "AddDocument", document_id |-> d]
       \/ handled'.op = "LoadCapture"

\* C2, as the code has it: the frame id seen under a document id grows by
\* exactly one when a built scene is swapped in, starts again at 0 when
\* AddDocument or LoadCapture puts a new document under the id, and is
\* changed by no other step.
FrameIdChangesBySwapOrCreation ==
    [][\A d \in (DOMAIN documents) \cap (DOMAIN documents') :
        IF SwapsScene(d)
        THEN documents'[d].frame_id = documents[d].frame_id + 1
        ELSE IF CreatesDocument(d)
        THEN documents'[d].frame_id = 0
        ELSE documents'[d].frame_id = documents[d].frame_id]_vars

\* A replay has put a document with frame id 0 under an id whose captured
\* document had swapped scenes
ReplayResetFrameId ==
    /\ handled.op = "LoadCapture"
    /\ pc # "panicked"
    /\ capture # None
    /\ \E d \in DOMAIN documents :
        /\ d \in DOMAIN capture[1].documents
        /\ capture[1].documents[d].frame_id > 0
        /\ documents[d].frame_id = 0

\* C2 as stated: the frame id under a document id never decreases and only
\* a scene swap changes it.
FrameIdChangesOnlyBySwap ==
    [][\A d \in (DOMAIN documents) \cap (DOMAIN documents') :
        IF SwapsScene(d)
        THEN documents'[d].frame_id = documents[d].frame_id + 1
        ELSE documents'[d].frame_id = documents[d].frame_id]_vars

----------------------------------------------------------------------------
(* Scene ids (make_unique_scene_id, load_capture).                         *)

\* C3 as stated: every scene id handed to the scene builder is strictly
\* greater than every scene id handed out before it, also after a replay.
SceneIdsStrictlyIncrease ==
    \A i, j \in 1..Len(scene_ids) : i < j => scene_ids[i] < scene_ids[j]

----------------------------------------------------------------------------
(* Payload reassembly (process_scene_msg, SetDisplayList).                 *)

\* The payloads the backend has taken from the payload channel
PayloadsReceived == payloads_sent - Len(payload_rx)

BufferedIds == { payload_buffer[i].id : i \in 1..Len(payload_buffer) }
PairedIds == { paired[i].data.id : i \in 1..Len(paired) }

\* C4: every SetDisplayList is paired with a payload that carries its own
\* key, no payload is paired with two messages, and when as many messages
\* have been processed as payloads were sent, whatever the interleaving,
\* the payload buffer (and the payload channel) is empty.
PairingExactlyOnce ==
    /\ \A i \in 1..Len(paired) : paired[i].data.key = paired[i].key
    /\ \A i, j \in 1..Len(paired) :
            paired[i].data.id = paired[j].data.id => i = j
    /\ Len(paired) = payloads_sent =>
            payload_buffer = << >> /\ payload_rx = << >>

\* Two messages with distinct keys, whose payloads were sent in the other
\* order, are both paired and the buffer is empty again
PairedOutOfOrder ==
    /\ Len(paired) = 2
    /\ payloads_sent = 2
    /\ paired[1].key # paired[2].key
    /\ paired[1].data.id > paired[2].data.id
    /\ payload_buffer = << >>

\* C5 as stated: successive SetDisplayList messages with one key are paired
\* with the payloads of that key in the order the payloads were sent.
PairingIsFifo ==
    \A i, j \in 1..Len(paired) :
        (i < j /\ paired[i].key = paired[j].key) =>
            paired[i].data.id < paired[j].data.id

\* C6: every payload received from the payload channel is either in the
\* payload buffer or matched, never both and never twice in the buffer, so
\* the size of the buffer is payloads received minus payloads matched;
\* DeleteDocument, ClearNamespace, MemoryPressure and LoadCapture drop none.
BufferedOrMatched ==
    /\ BufferedIds \cup PairedIds = 1..PayloadsReceived
    /\ BufferedIds \cap PairedIds = {}
    /\ Cardinality(BufferedIds) = Len(payload_buffer)
    /\ Len(payload_buffer) = PayloadsReceived - Len(paired)

\* A payload has been matched, another one is in the buffer, and the latest
\* request handled was one of the other requests
BufferSurvivesOtherRequests ==
    /\ payload_buffer # << >>
    /\ paired # << >>
    /\ pc # "panicked"
    /\ handled.op \in { "DeleteDocument", "ClearNamespace", "MemoryPressure",
                        "LoadCapture" }

----------------------------------------------------------------------------
(* The fast path (prepare_transaction, line 890).                          *)

\* C7: an UpdateDocument for a document of the table, with frame ops only
\* (no scene ops, no blob image updates) and use_scene_builder_thread =
\* false, sends nothing on either scene builder channel, takes no scene id,
\* and update_document applies its frame ops within the same step.
FrameOnlyTakesFastPath ==
    [][\A d \in DOMAIN documents, flushed \in BOOLEAN :
        \A t \in IF flushed THEN FlushTransactions ELSE FrameTransactions :
            (IsFrameOnly(t) /\ prepare_transaction(d, t, << >>, flushed)) =>
                /\ UNCHANGED << scene_tx, low_priority_scene_tx, last_scene_id,
                                scene_ids >>
                /\ documents'[d] =
                        update_document(documents[d], d, t.resource_updates,
                                        t.frame_ops, t.notifications,
                                        t.generate_frame, t.generate_frame,
                                        FALSE, << >>, flushed).doc]_vars

\* A SetPan was applied to the document and no scene id was ever taken
PanAppliedWithoutBuilder ==
    /\ handled = [op |-> "UpdateDocument", document_id |-> TheDocument]
    /\ TheDocument \in DOMAIN documents
    /\ documents[TheDocument].pan = 1
    /\ last_scene_id = 0
    /\ scene_tx = << >>

----------------------------------------------------------------------------
(* Scene builds in flight (prepare_transaction, run).                      *)

\* The transactions of document d in a channel
TransactionsOf(channel, d) ==
    { i \in 1..Len(channel) :
        /\ channel[i].type = "Transaction"
        /\ channel[i].txn.document_id = d }

\* The transactions of one document lie in the channel in the order in
\* which they were submitted
InSubmissionOrder(channel) ==
    \A d \in DocIds : \A i, j \in TransactionsOf(channel, d) :
        i < j => channel[i].seq < channel[j].seq

\* C8, as the code has it: the backend sends a transaction of a document
\* to the builder whether or not another one is in flight; on each scene
\* builder channel the transactions of one document lie in the order in
\* which they were submitted.
ChannelsKeepSubmissionOrder ==
    /\ InSubmissionOrder(scene_tx)
    /\ InSubmissionOrder(low_priority_scene_tx)

\* Two transactions of one document wait in the normal channel
TwoInOneChannel ==
    \E d \in DocIds : Cardinality(TransactionsOf(scene_tx, d)) = 2

\* C8 as stated: at most one transaction per document is in flight between
\* the backend and the scene builder.
AtMostOneInFlight ==
    \A d \in DocIds :
        Cardinality(TransactionsOf(scene_tx, d))
        + Cardinality(TransactionsOf(low_priority_scene_tx, d))
        + Cardinality(TransactionsOf(scene_rx, d)) <= 1

\* C9 as stated: the result of a transaction that was in flight when its
\* document was deleted is applied to no document and publishes nothing,
\* and a reply channel it carries gets exactly one Aborted.
OrphanedResultDiscarded ==
    [][(/\ pc = "drain"
        /\ scene_rx # << >>
        /\ scene_rx' = Tail(scene_rx)
        /\ Head(scene_rx).orphaned) =>
            /\ documents' = documents
            /\ result_tx' = << >>
            /\ notifier' = << >>
            /\ swap_replies' = IF Head(scene_rx).reply THEN << "Aborted" >>
                               ELSE << >>]_vars

\* C10 as stated: an UpdateDocument for an id that is not in the document
\* table does not panic the backend.
UnknownDocumentNotFatal ==
    ~(pc = "panicked" /\ handled.op = "UpdateDocument")

----------------------------------------------------------------------------
(* The hit tester (process_frame_msg, Scroll and HitTest).                 *)

\* The frame op is answered from the hit tester of the document: Scroll
\* asks it for the node under the cursor (lines 174-176) and HitTest for
\* the items under the point (lines 201-203), whenever the document has one.
ConsultsHitTester(doc, message) ==
    message.type \in { "Scroll", "HitTest" } /\ doc.hit_tester

\* Some op of frame_ops, processed in order from doc, consults the hit
\* tester while hit_tester_is_valid is false.
RECURSIVE ConsultsStaleHitTester(_, _)
ConsultsStaleHitTester(doc, frame_ops) ==
    IF frame_ops = << >> THEN FALSE
    ELSE \/ ConsultsHitTester(doc, Head(frame_ops)) /\ ~doc.hit_tester_is_valid
         \/ ConsultsStaleHitTester(process_frame_msg(doc, Head(frame_ops)).doc,
                                   Tail(frame_ops))

\* C11 as stated: whenever a HitTest or Scroll frame op consults the hit
\* tester of a document, on the fast path or when a result of the builder
\* is applied, hit_tester_is_valid is true.
HitTesterConsultedOnlyWhenValid ==
    [][/\ \A t \in FrameTransactions :
            (/\ TheDocument \in DOMAIN documents
             /\ IsFrameOnly(t)
             /\ prepare_transaction(TheDocument, t, << >>, FALSE)) =>
                ~ConsultsStaleHitTester(documents[TheDocument], t.frame_ops)
       /\ (/\ pc = "drain"
           /\ scene_rx # << >>
           /\ scene_rx' = Tail(scene_rx)
           /\ Head(scene_rx).txn.document_id \in DOMAIN documents) =>
                LET txn == Head(scene_rx).txn
                    doc == documents[txn.document_id]
                IN  ~ConsultsStaleHitTester(
                        IF IsSome(txn.built_scene)
                        THEN new_async_scene_ready(doc, txn.built_scene[1])
                        ELSE doc,
                        txn.frame_ops)]_vars

----------------------------------------------------------------------------
(* Notifications of requested frames (update_document, lines 1043-1063;    *)
(* run, lines 583-591).                                                    *)

\* notes and results are those of a step that told the notifier exactly
\* once, and of nothing else, that a frame of document d is ready; the
\* step published at most one document, and the pipeline info of d also
\* when it published none.
NotifiedOnce(d, notes, results) ==
    /\ Len(notes) = 1
    /\ notes[1].type = "new_frame_ready"
    /\ notes[1].document_id = d
    /\ Cardinality({ i \in 1..Len(results) :
                        results[i].type = "PublishDocument" }) <= 1
    /\ \E i \in 1..Len(results) : results[i] = PublishPipelineInfo(d)

\* The step drains the result of a transaction that requested a frame
DrainsFrameRequest ==
    /\ pc = "drain"
    /\ scene_rx # << >>
    /\ scene_rx' = Tail(scene_rx)
    /\ Head(scene_rx).txn.render_frame

----------------------------------------------------------------------------
(* A scroll after the first scene (process_frame_msg, update_document).    *)

\* The document as the first built scene and its frame leave it
AfterFirstScene(doc) ==
    /\ doc.frame_id = 1
    /\ doc.frame_is_valid
    /\ doc.hit_tester
    /\ can_render(doc)
    /\ has_pixels(doc)

\* The transaction holds one scroll frame op and nothing else, and is not
\* routed to the builder
IsScrollOnly(t) ==
    /\ IsFrameOnly(t)
    /\ t.resource_updates = << >>
    /\ Len(t.frame_ops) = 1
    /\ t.frame_ops[1].type \in { "Scroll", "ScrollNodeWithId" }

----------------------------------------------------------------------------
(* The first scene of a document (prepare_transaction, run).               *)

\* The transaction sets a display list and the root pipeline
SetsDisplayListAndRoot(t) ==
    /\ Len(t.scene_ops) = 2
    /\ t.scene_ops[1].type = "SetDisplayList"
    /\ t.scene_ops[2].type = "SetRootPipeline"

\* C14: on a backend that has handled nothing but the AddDocument of a
\* document with a window that is not empty, a transaction with a
\* SetDisplayList and a SetRootPipeline puts exactly one Transaction in
\* the scene builder's channel, with a scene build request of scene id 1,
\* and publishes nothing; the step that drains its result, with a built
\* scene that has a root pipeline, sends exactly one PublishDocument, for
\* that document, as a new scene, built at frame id 1.
FirstSceneBuildsFrameOne ==
    [][/\ \A t \in SceneTransactions :
            (/\ SetsDisplayListAndRoot(t)
             /\ msgs_received = 1
             /\ TheDocument \in DOMAIN documents
             /\ prepare_transaction(TheDocument, t, << >>, FALSE)) =>
                /\ Len(scene_tx') = 1
                /\ scene_tx'[1].type = "Transaction"
                /\ scene_tx'[1].txn.document_id = TheDocument
                /\ IsSome(scene_tx'[1].txn.request_scene_build)
                /\ scene_tx'[1].txn.request_scene_build[1].scene_id = 1
                /\ low_priority_scene_tx' = << >>
                /\ result_tx' = << >>
       /\ (/\ TheDocument \in DOMAIN documents
           /\ SwapsScene(TheDocument)
           /\ documents[TheDocument].frame_id = 0
           /\ has_pixels(documents[TheDocument])
           /\ Head(scene_rx).txn.built_scene[1].has_root) =>
                /\ result_tx' = << UpdateGpuCache,
                                   PublishPipelineInfo(TheDocument),
                                   PublishDocument(TheDocument, 1, TRUE) >>
                /\ documents'[TheDocument].frame_id = 1]_vars

\* The result of the first transaction, with scene id 1, has been drained
\* and the document published at frame id 1
FirstScenePublished ==
    /\ handled = [op |-> "Transaction", document_id |-> TheDocument]
    /\ msgs_received = 2
    /\ scene_ids = << 1 >>
    /\ Len(paired) = 1
    /\ result_tx = << UpdateGpuCache, PublishPipelineInfo(TheDocument),
                      PublishDocument(TheDocument, 1, TRUE) >>

----------------------------------------------------------------------------
(* Scroll offsets over a scene swap (new_async_scene_ready, lines 320-334; *)
(* SetDisplayList, lines 496-498).                                         *)

\* The transaction has a SetDisplayList with preserve_frame_state = false
DiscardsFrameState(t) ==
    \E i \in 1..Len(t.scene_ops) :
        /\ t.scene_ops[i].type = "SetDisplayList"
        /\ ~t.scene_ops[i].preserve_frame_state

----------------------------------------------------------------------------
(* Draining before blocking (run, lines 559-630).                          *)

\* C16, as the code has it: run goes from the try_recv loop to
\* api_rx.recv() only when a try_recv found no result; while a result
\* waits and run is in the loop, it handles no API message and does not
\* leave the loop; API messages are handled from api_rx.recv() only; and a
\* result that the builder completes while run waits in api_rx.recv()
\* stays in the channel until the next API message has been handled.
DrainsBeforeBlocking ==
    [][/\ (pc = "drain" /\ pc' = "recv") => scene_rx = << >>
       /\ (pc = "drain" /\ scene_rx # << >>) =>
                pc' = "drain" /\ msgs_received' = msgs_received
       /\ msgs_received' # msgs_received => pc = "recv"
       /\ (pc = "recv" /\ msgs_received' = msgs_received) =>
                /\ pc' = "recv"
                /\ Len(scene_rx') >= Len(scene_rx)
                /\ SubSeq(scene_rx', 1, Len(scene_rx)) = scene_rx]_vars

\* A result has been drained and run waits in api_rx.recv() with no result
\* in the channel
BlockedAfterDrain ==
    /\ pc = "recv"
    /\ scene_rx = << >>
    /\ handled.op = "Transaction"

\* C16 as stated: run never waits in api_rx.recv() while a result of the
\* builder is in the channel.
NoResultWhileBlocked ==
    ~(pc = "recv" /\ scene_rx # << >>)

----------------------------------------------------------------------------
(* Destroyed documents (DeleteDocument and ClearNamespace, lines 710-722). *)

----------------------------------------------------------------------------
(* The shutdown loop (run, lines 632-647).                                 *)

\* The step is a turn of the shutdown loop that received a result
ShutdownReceives ==
    /\ pc = "stopping"
    /\ scene_rx # << >>
    /\ scene_rx' = Tail(scene_rx)

\* C18, as the code has it: in the shutdown loop a Transaction result is
\* dropped and the loop goes on: no document changes, nothing is published
\* or notified, no reply is sent; a FlushComplete is answered and the loop
\* goes on, or, in a build with debug assertions, panics the thread; a
\* Stopped ends the loop, and the notifier is told of the shutdown.
ShutdownLoopDropsTransactions ==
    [][ShutdownReceives =>
        CASE Head(scene_rx).type = "Transaction" ->
                /\ pc' = "stopping"
                /\ UNCHANGED documents
                /\ result_tx' = << >>
                /\ notifier' = << >>
                /\ swap_replies' = << >>
          [] Head(scene_rx).type = "FlushComplete" ->
                \/ pc' = "stopping" /\ swap_replies' = << "FlushComplete" >>
                \/ pc' = "panicked"
          [] Head(scene_rx).type = "Stopped" ->
                /\ pc' = "done"
                /\ notifier' = << [type |-> "shut_down"] >>
          [] OTHER -> FALSE]_vars

\* The shutdown loop has dropped the result of a transaction and goes on
TransactionDroppedInShutdown ==
    /\ pc = "stopping"
    /\ handled.op = "Transaction"

\* C18 as stated: in the shutdown loop a Transaction result is fatal, a
\* FlushComplete is answered and a Stopped ends the loop.
ShutdownLoopTransactionFatal ==
    [][ShutdownReceives =>
        CASE Head(scene_rx).type = "Transaction" -> pc' = "panicked"
          [] Head(scene_rx).type = "FlushComplete" ->
                pc' = "stopping" /\ swap_replies' = << "FlushComplete" >>
          [] Head(scene_rx).type = "Stopped" -> pc' = "done"
          [] OTHER -> FALSE]_vars

\* C19 as stated: once run has left its main loop, by ShutDown or by the
\* loss of the API channel, and the builder answers the Stop or ends, run
\* returns, having called shut_down.
ShutdownTerminates ==
    (pc = "stopping") ~>
        (pc = "done" /\ notifier = << [type |-> "shut_down"] >>)

----------------------------------------------------------------------------
(* A Stopped before the Stop (run, lines 612-618).                         *)

\* C20: when a Stopped is at the head of the results while run is in its
\* main loop, the builder said it without having been asked, and the only
\* step the backend thread can take is the panic: until then it handles
\* nothing and stays in the loop.
UnpromptedStoppedIsFatal ==
    [][(/\ pc = "drain"
        /\ scene_rx # << >>
        /\ Head(scene_rx).type = "Stopped") =>
            /\ ~Head(scene_rx).prompted
            /\ \/ pc' = "panicked" /\ handled'.op = "Stopped"
               \/ /\ UNCHANGED << pc, handled, documents, msgs_received,
                                  result_tx, notifier >>
                  /\ Head(scene_rx') = Head(scene_rx)]_vars

\* The backend thread has panicked over a Stopped
PanickedOverStopped ==
    /\ pc = "panicked"
    /\ handled.op = "Stopped"
    /\ scene_rx # << >>
    /\ ~Head(scene_rx).prompted

----------------------------------------------------------------------------
(* C21: every MemoryPressure request is handled in one step that clears    *)
(* the whole resource cache, sends exactly one UpdateResources with        *)
(* cancel_rendering = true and then one wake_up to the consumer, and       *)
(* leaves the document table (so every frame id and validity flag) and the *)
(* payload buffer as they were.                                            *)
MemoryPressureCancelsRendering ==
    [][(msgs_received' = msgs_received + 1 /\ handled'.op = "MemoryPressure")
        => /\ pc' = "drain"
           /\ handled'.cleared = ClearCache_all
           /\ result_tx' = << [type |-> "UpdateResources",
                               cancel_rendering |-> TRUE] >>
           /\ notifier' = << [type |-> "wake_up"] >>
           /\ documents' = documents
           /\ payload_buffer' = payload_buffer
           /\ payload_rx' = payload_rx]_vars

\* C21 witness: memory pressure handled with a document in the table and a
\* payload waiting in the buffer
MemoryPressureWithDocumentAndPayload ==
    /\ handled.op = "MemoryPressure"
    /\ pc = "drain"
    /\ DOMAIN documents # {}
    /\ payload_buffer # << >>
    /\ \E i \in 1..Len(result_tx) : result_tx[i].type = "UpdateResources"

----------------------------------------------------------------------------
(* SpecTable: the document table.  Two documents of two namespaces are     *)
(* added, deleted, cleared with their namespace, captured and reloaded,    *)
(* while transactions with scene ops and frame ops and the builder's       *)
(* results go through.                                                     *)

TableTransactions ==
    { TransactionMsg(<< SetRootPipeline >>, << >>, << >>, TRUE, FALSE, FALSE),
      TransactionMsg(<< >>, << >>, << ScrollNodeWithId(TRUE), HitTest >>, TRUE,
                     FALSE, FALSE) }

NextTable ==
    \/ TryRecvEmpty
    \/ DrainResult(<< >>, FALSE)
    \/ \E d \in DocIds : AddDocument(d, FALSE)
    \/ \E d \in DocIds : DeleteDocument(d)
    \/ \E namespace_id \in { 1, 2 } : ClearNamespace(namespace_id)
    \/ \E d \in DocIds, t \in TableTransactions :
            prepare_transaction(d, t, << >>, FALSE)
    \/ \E bits \in { { "SCENE" }, { "SCENE", "FRAME" } } :
            save_capture(bits, TRUE)
    \/ \E order \in AllOrders : load_capture(order)
    \/ \E low \in BOOLEAN, has_root \in BOOLEAN :
            SceneBuilder(low, has_root, FALSE)

SpecTable == Init /\ [][NextTable]_vars

----------------------------------------------------------------------------
(* C22: the table holds one Document per id and changes only explicitly:   *)
(* an id enters the table only by its AddDocument or by a replay, and      *)
(* leaves it only by its DeleteDocument, a ClearNamespace of its namespace *)
(* or a replay; AddDocument leaves the id with a fresh Document (frame id  *)
(* 0, no frame builder, no hit tester, both validity flags false); every   *)
(* other step (transaction, builder result, frame op) keeps the set of     *)
(* ids.                                                                    *)
HandledRequest(op) ==
    /\ msgs_received' = msgs_received + 1
    /\ handled'.op = op
    /\ pc' = "drain"

IsFreshDocument(doc) ==
    /\ doc.frame_id = 0
    /\ ~doc.frame_builder
    /\ ~doc.hit_tester
    /\ ~doc.frame_is_valid
    /\ ~doc.hit_tester_is_valid

TableChangesOnlyExplicitly ==
    [][/\ HandledRequest("AddDocument") =>
            /\ DOMAIN documents' = DOMAIN documents \cup { handled'.document_id }
            /\ IsFreshDocument(documents'[handled'.document_id])
            /\ \A d \in DOMAIN documents \ { handled'.document_id } :
                    documents'[d] = documents[d]
       /\ HandledRequest("DeleteDocument") =>
            DOMAIN documents' = DOMAIN documents \ { handled'.document_id }
       /\ HandledRequest("ClearNamespace") =>
            DOMAIN documents' =
                { d \in DOMAIN documents : d[1] # handled'.namespace_id }
       /\ HandledRequest("LoadCapture") =>
            DOMAIN documents' = DOMAIN capture[1].documents
       /\ ~(\E op \in { "AddDocument", "DeleteDocument", "ClearNamespace",
                         "LoadCapture" } : HandledRequest(op))
            => DOMAIN documents' = DOMAIN documents]_vars

\* C22 witness: a transaction's result is applied while the table holds one
\* of the two documents, the other one having been removed
ResultAppliedAfterRemoval ==
    /\ handled.op = "Transaction"
    /\ DOMAIN documents = { << 2, 1 >> }
    /\ documents[<< 2, 1 >>].frame_id > 0
    /\ msgs_received = MaxApiMsgs

----------------------------------------------------------------------------
(* Idempotence of frame building (update_document).                        *)

\* The document's frame is valid and the update brings no invalidating
\* event: no op that moves a node or changes the pan, no UpdateImage, no
\* property flush
ValidAndIdle(doc, resource_updates, frame_ops, flushed) ==
    /\ doc.frame_is_valid
    /\ ~AnyInvalidates(doc, frame_ops, FALSE)
    /\ ~has_update_image(resource_updates)
    /\ ~flushed

\* Nothing was built or published and the frame is as it was
NoFrameBuilt(doc, doc_after, results) ==
    /\ \A i \in 1..Len(results) :
            results[i].type \notin { "UpdateGpuCache", "PublishDocument" }
    /\ doc_after.frame_is_valid = doc.frame_is_valid
    /\ doc_after.hit_tester_is_valid = doc.hit_tester_is_valid
    /\ doc_after.frame_id = doc.frame_id

\* C23: when a document's frame is valid and a transaction that asks for a
\* frame brings no invalidating event (no scroll that moves a node, no pan
\* change, no UpdateImage, no property flush, no scene swap), its
\* update_document builds no frame, sends neither UpdateGpuCache nor
\* PublishDocument and leaves frame_is_valid, hit_tester_is_valid and the
\* frame id; applying the transaction again leaves the document as the first
\* application left it.  This holds on the fast path and for a result that
\* comes back from the builder without a built scene.
ValidFrameIsNotRebuilt ==
    [][/\ \A t \in FrameTransactions :
            (/\ TheDocument \in DOMAIN documents
             /\ t.generate_frame
             /\ IsFrameOnly(t)
             /\ ValidAndIdle(documents[TheDocument], t.resource_updates,
                             t.frame_ops, FALSE)
             /\ prepare_transaction(TheDocument, t, << >>, FALSE)) =>
                /\ pc' = "drain"
                /\ NoFrameBuilt(documents[TheDocument],
                                documents'[TheDocument], result_tx')
                /\ update_document(documents'[TheDocument], TheDocument,
                        t.resource_updates, t.frame_ops, t.notifications,
                        TRUE, TRUE, FALSE, << >>, FALSE).doc
                   = documents'[TheDocument]
       /\ \A sampled \in Samples :
            (/\ scene_rx # << >>
             /\ Head(scene_rx).type = "Transaction"
             /\ Head(scene_rx).txn.document_id \in DOMAIN documents
             /\ Head(scene_rx).txn.render_frame
             /\ ~IsSome(Head(scene_rx).txn.built_scene)
             /\ ValidAndIdle(documents[Head(scene_rx).txn.document_id],
                             Head(scene_rx).txn.resource_updates,
                             Head(scene_rx).txn.frame_ops \o sampled, FALSE)
             /\ DrainResult(sampled, FALSE)) =>
                /\ NoFrameBuilt(documents[Head(scene_rx).txn.document_id],
                                documents'[Head(scene_rx).txn.document_id],
                                result_tx')
                /\ update_document(documents'[Head(scene_rx).txn.document_id],
                        Head(scene_rx).txn.document_id,
                        Head(scene_rx).txn.resource_updates,
                        Head(scene_rx).txn.frame_ops,
                        Head(scene_rx).txn.notifications, TRUE, TRUE, FALSE,
                        sampled, FALSE).doc
                   = documents'[Head(scene_rx).txn.document_id]]_vars

\* C23 witness: a frame was asked for a document whose frame was valid, by a
\* SetPan to the pan it had; nothing was built and the frame is still valid
FrameRequestedForValidFrame ==
    /\ handled = [op |-> "UpdateDocument", document_id |-> TheDocument]
    /\ pc = "drain"
    /\ TheDocument \in DOMAIN documents
    /\ documents[TheDocument].frame_is_valid
    /\ documents[TheDocument].pan = 1
    /\ result_tx = << PublishPipelineInfo(TheDocument) >>
    /\ notifier = << new_frame_ready(TheDocument, FALSE, TRUE) >>

----------------------------------------------------------------------------
(* C24: a scene swap forces a frame build.  Whenever the result at the     *)
(* head of scene_rx carries a built scene for a document of the table, and *)
(* the document it is swapped into can render (frame builder present, root *)
(* pipeline set) and has a window that is not empty, the update_document   *)
(* of the same step builds a frame and publishes it as a new scene,        *)
(* whether or not the transaction asked for a frame; after the step        *)
(* frame_is_valid and hit_tester_is_valid are true and the hit tester is   *)
(* the one created from the new tree.                                      *)
SwapForcesFrameBuild ==
    [][\A d \in DocIds :
        (/\ SwapsScene(d)
         /\ d \in DOMAIN documents
         /\ can_render(documents'[d])
         /\ has_pixels(documents'[d])) =>
            /\ documents'[d].frame_id = documents[d].frame_id + 1
            /\ result_tx' = << UpdateGpuCache, PublishPipelineInfo(d),
                                PublishDocument(d, documents'[d].frame_id, TRUE) >>
            /\ documents'[d].frame_is_valid
            /\ documents'[d].hit_tester_is_valid
            /\ documents'[d].hit_tester
            /\ documents'[d].hit_tester_tree = documents'[d].frame_id]_vars

\* C24 witness: a second scene was swapped in by a transaction that asked for
\* no frame, and was published as a new scene without a notification
SwapPublishedWithoutFrameRequest ==
    /\ handled = [op |-> "Transaction", document_id |-> TheDocument]
    /\ TheDocument \in DOMAIN documents
    /\ documents[TheDocument].frame_id = 2
    /\ documents[TheDocument].hit_tester_tree = 2
    /\ documents[TheDocument].frame_is_valid
    /\ result_tx = << UpdateGpuCache, PublishPipelineInfo(TheDocument),
                      PublishDocument(TheDocument, 2, TRUE) >>
    /\ notifier = << >>

----------------------------------------------------------------------------
(* Documents that cannot be rendered (update_document, lines 989-1063).    *)

\* The step runs update_document for document d, which is in the table: on
\* the fast path of a transaction or for a result of the builder
RunsUpdateDocument(d) ==
    /\ d \in DOMAIN documents
    /\ \/ /\ msgs_received' = msgs_received + 1
          /\ handled' = [op |-> "UpdateDocument", document_id |-> d]
          /\ UNCHANGED << scene_tx, low_priority_scene_tx >>
       \/ /\ scene_rx # << >>
          /\ scene_rx' = Tail(scene_rx)
          /\ handled' = [op |-> "Transaction", document_id |-> d]

\* The document has no frame builder, no root pipeline, or an empty window
Unrenderable(doc) ==
    \/ ~doc.frame_builder
    \/ ~doc.has_root
    \/ doc.window_empty

\* Nothing was built or published for the document and the thread goes on
SkippedSilently(doc, doc_after, results) ==
    /\ pc' = "drain"
    /\ \A i \in 1..Len(results) :
            results[i].type \notin { "UpdateGpuCache", "PublishDocument" }
    /\ doc_after.frame_is_valid => doc.frame_is_valid
    /\ doc_after.hit_tester = doc.hit_tester
    /\ doc_after.hit_tester_tree = doc.hit_tester_tree

\* C25, as the code has it: when update_document runs for a document that
\* has no frame builder, no root pipeline or an empty window, no frame is
\* built, no PublishDocument is sent and nothing fails; the render flag of
\* new_frame_ready (sent when a frame was asked for) is false when the
\* frame builder or the root pipeline is missing, and true when only the
\* window is empty.
UnrenderableSkippedSilently ==
    [][\A d \in DocIds :
        (/\ RunsUpdateDocument(d)
         /\ pc' = "drain" => Unrenderable(documents'[d])) =>
            /\ SkippedSilently(documents[d], documents'[d], result_tx')
            /\ \A i \in 1..Len(notifier') :
                    /\ notifier'[i].type = "new_frame_ready"
                    /\ notifier'[i].render_frame =
                            (documents'[d].frame_builder /\ documents'[d].has_root)]_vars

\* C25 witness: a frame was asked for a document with a frame builder, a
\* root pipeline and an empty window: nothing was published and the
\* consumer was told to render
EmptyWindowToldToRender ==
    /\ TheDocument \in DOMAIN documents
    /\ handled.document_id = TheDocument
    /\ documents[TheDocument].frame_builder
    /\ documents[TheDocument].has_root
    /\ documents[TheDocument].window_empty
    /\ ~documents[TheDocument].frame_is_valid
    /\ result_tx = << PublishPipelineInfo(TheDocument) >>
    /\ \E scroll \in BOOLEAN :
            notifier = << new_frame_ready(TheDocument, scroll, TRUE) >>

\* C25 as stated: the render flag is false in all three cases.
UnrenderableNeverRendered ==
    [][\A d \in DocIds :
        (/\ RunsUpdateDocument(d)
         /\ pc' = "drain" => Unrenderable(documents'[d])) =>
            /\ SkippedSilently(documents[d], documents'[d], result_tx')
            /\ \A i \in 1..Len(notifier') :
                    /\ notifier'[i].type = "new_frame_ready"
                    /\ ~notifier'[i].render_frame]_vars

----------------------------------------------------------------------------
(* C26: the debug requests FetchDocuments, FetchClipScrollTree and         *)
(* SaveCapture (with any capture bits) leave the table and every           *)
(* document's scene, frame id, frame_is_valid and hit_tester_is_valid as   *)
(* they were.                                                              *)
DebugRequestsInert ==
    [][(/\ msgs_received' = msgs_received + 1
        /\ handled'.op \in { "FetchDocuments", "FetchClipScrollTree",
                             "SaveCapture" }) =>
            /\ DOMAIN documents' = DOMAIN documents
            /\ \A d \in DOMAIN documents :
                    /\ documents'[d].has_root = documents[d].has_root
                    /\ documents'[d].frame_id = documents[d].frame_id
                    /\ documents'[d].frame_is_valid = documents[d].frame_is_valid
                    /\ documents'[d].hit_tester_is_valid =
                            documents[d].hit_tester_is_valid]_vars

----------------------------------------------------------------------------
(* C27: queries against an absent hit tester.  A document without a hit    *)
(* tester is one no frame was built for yet, and both its validity flags   *)
(* are false.  On such a document a HitTest frame op is answered with      *)
(* exactly one reply that holds no item, and a Scroll frame op moves no    *)
(* node and does not touch frame_is_valid and hit_tester_is_valid (they    *)
(* change in that update_document only if it builds a frame); neither op   *)
(* fails.                                                                  *)
AbsentHitTesterNeverFails ==
    [][/\ \A d \in DOMAIN documents :
            ~documents[d].hit_tester =>
                /\ ~documents[d].frame_is_valid
                /\ ~documents[d].hit_tester_is_valid
                /\ \A moves \in BOOLEAN :
                        process_frame_msg(documents[d], Scroll(moves)).doc
                            = documents[d]
       /\ \A t \in FrameTransactions :
            (/\ TheDocument \in DOMAIN documents
             /\ ~documents[TheDocument].hit_tester
             /\ IsFrameOnly(t)
             /\ Len(t.frame_ops) = 1
             /\ t.frame_ops[1].type \in { "HitTest", "Scroll" }
             /\ prepare_transaction(TheDocument, t, << >>, FALSE)) =>
                /\ pc' = "drain"
                /\ swap_replies' = IF t.frame_ops[1].type = "HitTest"
                                   THEN << HitTestResult(<< >>) >>
                                   ELSE << >>
                /\ documents'[TheDocument].scroll_offset
                        = documents[TheDocument].scroll_offset
                /\ \/ \E i \in 1..Len(result_tx') :
                            result_tx'[i].type = "PublishDocument"
                   \/ documents'[TheDocument] = documents[TheDocument]]_vars

\* C27 witness: a HitTest on a document that has a frame builder and a root
\* pipeline but, its window being empty, no frame and no hit tester yet
HitTestAnsweredWithoutHitTester ==
    /\ handled = [op |-> "UpdateDocument", document_id |-> TheDocument]
    /\ pc = "drain"
    /\ TheDocument \in DOMAIN documents
    /\ documents[TheDocument].frame_builder
    /\ ~documents[TheDocument].hit_tester
    /\ swap_replies = << HitTestResult(<< >>) >>

----------------------------------------------------------------------------
(* SpecPayloadLive: the payload wait (the loop of lines 479-486) one       *)
(* payload_rx.recv() at a time.  An UpdateDocument with one SetDisplayList *)
(* whose payload is not in the buffer puts the backend into the loop       *)
(* (pc = "payload"); every payload it receives there is either the one it  *)
(* waits for, and prepare_transaction goes on, or is pushed to the buffer. *)
(* The producer sends payloads ahead of their messages, and sends the      *)
(* payload of the message the backend waits for.                           *)

\* The UpdateDocument whose only scene op is a SetDisplayList with this key
DisplayListTransaction(key) ==
    TransactionMsg(<< SetDisplayList(key) >>, << >>, << >>, FALSE, FALSE, FALSE)

\* The backend is in the loop of line 479, waiting for a payload of the key
WaitsForPayload(key) ==
    /\ pc = "payload"
    /\ handled.key = key

\* api_rx.recv() returns the UpdateDocument; process_scene_msg finds no
\* payload of the key in the buffer and enters the loop.  The transaction
\* is one that can be sent on when its payload has come.
PayloadWait(document_id, key) ==
    /\ Receive
    /\ document_id \in DOMAIN documents
    /\ position(payload_buffer, key) = 0
    /\ last_scene_id < MaxSceneId
    /\ Len(scene_ids) < MaxIssued
    /\ Len(scene_tx) < MaxQueue
    /\ pc' = "payload"
    /\ handled' = [op |-> "SetDisplayList", document_id |-> document_id,
                   key |-> key]
    /\ result_tx' = << >>
    /\ calls' = << pre_scene_building_update(
                        DisplayListTransaction(key).resource_updates) >>
    /\ notifier' = << >>
    /\ swap_replies' = << >>
    /\ UNCHANGED <<documents, last_scene_id, payload_rx, payload_buffer,
                   scene_tx, low_priority_scene_tx, scene_rx, capture,
                   scene_ids, paired, payloads_sent, builder_running, fresh,
                   fresh_any_scroll, resume_rx>>

\* A loop that pushes every payload it receives to the buffer
PayloadRecvBuffersAll ==
    /\ pc = "payload"
    /\ payload_rx # << >>
    /\ payload_rx' = Tail(payload_rx)
    /\ payload_buffer' = Append(payload_buffer, Head(payload_rx))
    /\ UNCHANGED <<documents, last_scene_id, scene_tx,
                   low_priority_scene_tx, scene_rx, result_tx, notifier,
                   swap_replies, capture, pc, handled, scene_ids, paired,
                   payloads_sent, builder_running, fresh, fresh_any_scroll,
                   msgs_received, calls, resume_rx>>

\* One turn of the loop of lines 479-486: payload_rx.recv() returns the
\* oldest payload of the channel.
PayloadRecv ==
    /\ pc = "payload"
    /\ payload_rx # << >>
    /\ IF Head(payload_rx).key = handled.key
       THEN \* break data: the rest of the handler
            /\ handled' = [op |-> "UpdateDocument",
                           document_id |-> handled.document_id]
            /\ transaction_from_scene_ops(handled.document_id,
                    DisplayListTransaction(handled.key), << >>, FALSE, << >>)
            /\ UNCHANGED msgs_received
       ELSE /\ payload_rx' = Tail(payload_rx)
            /\ payload_buffer' = Append(payload_buffer, Head(payload_rx))
            /\ UNCHANGED <<documents, last_scene_id, scene_tx,
                           low_priority_scene_tx, scene_rx, result_tx,
                           notifier, swap_replies, capture, pc, handled,
                           scene_ids, paired, payloads_sent, builder_running,
                           fresh, fresh_any_scroll, msgs_received, calls, resume_rx>>

\* The producer sends a payload ahead of its message; it keeps one payload
\* for each message that can still come.
SendPayloadAhead(key) ==
    /\ payloads_sent + (MaxSceneId - last_scene_id) < MaxPayloads
    /\ SendPayload(key)

\* The protocol: the producer sends the payload of the SetDisplayList the
\* backend waits for, if the channel does not hold one.
SendAwaitedPayload ==
    \E key \in Keys :
        /\ WaitsForPayload(key)
        /\ position(payload_rx, key) = 0
        /\ SendPayload(key)

NextPayloadLive ==
    \/ TryRecvEmpty
    \/ \E key \in Keys : SendPayloadAhead(key)
    \/ SendAwaitedPayload
    \/ AddDocument(TheDocument, FALSE)
    \/ DeleteDocument(TheDocument)
    \/ \E key \in Keys :
            prepare_transaction(TheDocument, DisplayListTransaction(key),
                                << >>, FALSE)
    \/ \E key \in Keys : PayloadWait(TheDocument, key)
    \/ PayloadRecv

\* The backend thread runs: a recv() on a channel that holds a payload
\* returns.  The producer keeps the protocol: the payload of a
\* SetDisplayList that was sent is sent too.
SpecPayloadLive ==
    /\ Init
    /\ [][NextPayloadLive]_vars
    /\ WF_vars(PayloadRecv)
    /\ WF_vars(SendAwaitedPayload)

\* C28: if the payload of every SetDisplayList is sent at some time, before
\* or after the message, the payload wait ends: a backend that waits for
\* the payload of a key gets one, pairs it with the message and goes on
\* with the transaction, whatever other payloads come first.
PayloadWaitTerminates ==
    \A key \in Keys :
        WaitsForPayload(key) ~>
            (/\ pc = "drain"
             /\ handled.op = "UpdateDocument"
             /\ paired # << >>
             /\ paired[Len(paired)].key = key)

\* C28 witness: the wait for a payload of b has ended after two payloads of
\* a, which came first, were pushed to the buffer
WaitEndedAfterOtherPayloads ==
    /\ pc = "drain"
    /\ handled.op = "UpdateDocument"
    /\ Len(payload_buffer) = 2
    /\ \A i \in 1..2 : payload_buffer[i].key = "a"
    /\ paired # << >>
    /\ paired[Len(paired)].key = "b"
    /\ paired[Len(paired)].data.id = 3

----------------------------------------------------------------------------
(* SpecRoute: the routing of transactions.  Transactions with and without  *)
(* scene ops, among them changes of the window, routed to the builder or   *)
(* not, of both priorities, for documents with either window.              *)

RouteSceneOps ==
    { << >>, << SetWindowParameters(TRUE) >>, << SetRootPipeline >>,
      << UpdateEpoch >>,
      << SetWindowParameters(TRUE), SetRootPipeline >>,
      << SetRootPipeline, SetWindowParameters(FALSE) >> }

RouteTransactions ==
    { TransactionMsg(scene_ops, << >>, << >>, FALSE, use, low) :
        scene_ops \in RouteSceneOps, use \in BOOLEAN, low \in BOOLEAN }

NextRoute ==
    \/ TryRecvEmpty
    \/ DrainResult(<< >>, FALSE)
    \/ \E window_empty \in BOOLEAN : AddDocument(TheDocument, window_empty)
    \/ \E t \in RouteTransactions :
            prepare_transaction(TheDocument, t, << >>, FALSE)
    \/ \E low \in BOOLEAN, has_root \in BOOLEAN :
            SceneBuilder(low, has_root, FALSE)

SpecRoute == Init /\ [][NextRoute]_vars

\* The state of prepare_transaction after its loop over the scene ops
scene_ops_applied(document_id, transaction_msg) ==
    process_scene_ops([ documents |-> documents,
                        txn |-> Transaction_new(document_id, transaction_msg),
                        payload_buffer |-> payload_buffer,
                        payload_rx |-> payload_rx,
                        paired |-> paired,
                        panicked |-> FALSE,
                        blocked |-> FALSE ],
                      document_id, transaction_msg.scene_ops)

\* The window a transaction leaves: that of its last SetWindowParameters, or
\* the one the document had
RECURSIVE window_after(_, _)
window_after(window_empty, scene_ops) ==
    IF scene_ops = << >> THEN window_empty
    ELSE window_after(IF Head(scene_ops).type = "SetWindowParameters"
                      THEN Head(scene_ops).window_empty ELSE window_empty,
                      Tail(scene_ops))

\* The channel got msg as its newest message and kept the others
SentOnceOn(channel, channel_after) ==
    /\ Len(channel_after) = Len(channel) + 1
    /\ SubSeq(channel_after, 1, Len(channel)) = channel

\* C29: a transaction that does not take the fast path is sent exactly
\* once, on the low-priority channel if it is marked low_priority and on
\* the normal channel otherwise, the other channel being left alone; it
\* carries a SceneRequest iff it should build a scene, and the request's
\* view is the document's view after all scene ops of the transaction.
SentOnceToItsChannel ==
    [][\A t \in RouteTransactions :
        (/\ TheDocument \in DOMAIN documents
         /\ ~takes_fast_path(t, scene_ops_applied(TheDocument, t).txn)
         /\ prepare_transaction(TheDocument, t, << >>, FALSE)) =>
            /\ pc' = "drain"
            /\ IF t.low_priority
               THEN /\ SentOnceOn(low_priority_scene_tx, low_priority_scene_tx')
                    /\ scene_tx' = scene_tx
               ELSE /\ SentOnceOn(scene_tx, scene_tx')
                    /\ low_priority_scene_tx' = low_priority_scene_tx
            /\ LET channel == IF t.low_priority THEN low_priority_scene_tx'
                              ELSE scene_tx'
                   request == channel[Len(channel)]
               IN  /\ request.type = "Transaction"
                   /\ request.txn.document_id = TheDocument
                   /\ request.low = t.low_priority
                   /\ IsSome(request.txn.request_scene_build)
                        <=> should_build_scene(
                                scene_ops_applied(TheDocument, t).txn)
                   /\ IsSome(request.txn.request_scene_build) =>
                        /\ request.txn.request_scene_build[1].view
                                = DocumentView(documents'[TheDocument])
                        /\ request.txn.request_scene_build[1].view.window_empty
                                = window_after(
                                    documents[TheDocument].window_empty,
                                    t.scene_ops)]_vars

\* C29 witness: a low-priority transaction that made the window empty and
\* set the root pipeline is in the low-priority channel, with a SceneRequest
\* whose view has the empty window, after one of normal priority without a
\* SceneRequest went to the normal channel
LowPrioritySentWithNewView ==
    /\ Len(low_priority_scene_tx) = 1
    /\ Len(scene_tx) = 1
    /\ ~IsSome(scene_tx[1].txn.request_scene_build)
    /\ IsSome(low_priority_scene_tx[1].txn.request_scene_build)
    /\ low_priority_scene_tx[1].txn.request_scene_build[1].view.window_empty
    /\ msgs_received = 3

----------------------------------------------------------------------------
(* C30: replay resets the table before it reloads.  After a LoadCapture    *)
(* the table holds exactly the documents of the capture, each with frame   *)
(* id 0, a frame builder, no hit tester and both validity flags false;     *)
(* one LoadScenes request with one scene for every reloaded document has   *)
(* been sent to the scene builder, on the low-priority channel, and none   *)
(* when the capture holds no document.                                     *)
ReplayResetsTable ==
    [][HandledRequest("LoadCapture") =>
        /\ DOMAIN documents' = DOMAIN capture[1].documents
        /\ \A d \in DOMAIN documents' :
                /\ documents'[d].frame_id = 0
                /\ documents'[d].frame_builder
                /\ ~documents'[d].hit_tester
                /\ ~documents'[d].frame_is_valid
                /\ ~documents'[d].hit_tester_is_valid
        /\ scene_tx' = scene_tx
        /\ IF DOMAIN capture[1].documents = {}
           THEN low_priority_scene_tx' = low_priority_scene_tx
           ELSE /\ SentOnceOn(low_priority_scene_tx, low_priority_scene_tx')
                /\ LET request ==
                            low_priority_scene_tx'[Len(low_priority_scene_tx')]
                   IN  /\ request.type = "LoadScenes"
                       /\ Len(request.scenes) = Cardinality(DOMAIN documents')
                       /\ { request.scenes[i].document_id :
                                i \in 1..Len(request.scenes) }
                            = DOMAIN documents']_vars

\* C30 witness: the capture of a document was reloaded after the document
\* had been deleted from the table
CaptureReloadedOverOtherTable ==
    /\ handled.op = "LoadCapture"
    /\ pc = "drain"
    /\ capture # None
    /\ DOMAIN capture[1].documents = { << 1, 1 >> }
    /\ DOMAIN documents = { << 1, 1 >> }
    /\ documents[<< 1, 1 >>].frame_id = 0
    /\ low_priority_scene_tx # << >>
    /\ low_priority_scene_tx[Len(low_priority_scene_tx)].type = "LoadScenes"
    /\ \E i \in 1..Len(low_priority_scene_tx) :
            /\ low_priority_scene_tx[i].type = "DeleteDocument"
            /\ low_priority_scene_tx[i].document_id = << 1, 1 >>

----------------------------------------------------------------------------
(* Failures of capture and replay (save_capture, load_capture).            *)

\* The artifacts that a capture directory lacks: save_capture writes the
\* scenes under the SCENE bit (lines 1252-1255), the frames, the resource
\* cache and the GPU cache under the FRAME bit (1256-1268, 1299-1304) and
\* the backend always (1286); a directory nothing was saved to has none.
MissingArtifacts(dir) ==
    IF dir = None
    THEN { "backend", "scene", "frame", "resource_cache", "gpu_cache" }
    ELSE (IF dir[1].scene \/ DOMAIN dir[1].documents = {}
          THEN {} ELSE { "scene" })
         \cup (IF dir[1].frame THEN {}
               ELSE { "frame", "resource_cache", "gpu_cache" })

\* C31 as stated: a SaveCapture whose directory cannot be created, and a
\* LoadCapture from a directory that lacks the backend, a scene, a frame,
\* the resource cache or the GPU cache, do not end the backend thread, and
\* the load does not go on to tell the consumer that the capture was loaded
\* (DebugOutput::LoadCapture) as if nothing were missing.
CaptureFailureReported ==
    [][/\ \A bits \in { { "SCENE" }, { "SCENE", "FRAME" } } :
            save_capture(bits, FALSE) => pc' # "panicked"
       /\ (/\ msgs_received' = msgs_received + 1
           /\ handled'.op = "LoadCapture"
           /\ MissingArtifacts(capture) # {}) =>
                /\ pc' # "panicked"
                /\ \A i \in 1..Len(result_tx') :
                        result_tx'[i].type # "DebugOutput"]_vars

----------------------------------------------------------------------------
(* SpecPublish: one document and what update_document sends and calls for  *)
(* its transactions.  The transactions carry notification requests,        *)
(* resource updates and pipeline removals; they take the fast path or go   *)
(* through the builder, whose results come with and without a scene.       *)

RemovePipeline(pipeline_id) ==
    [type |-> "RemovePipeline", pipeline_id |-> pipeline_id]

\* The requests a transaction of this run carries: one that waits for the
\* frame, and one that waits for a checkpoint the backend does not handle
Notifications ==
    << NotificationRequest("FrameBuilt", 1),
       NotificationRequest("FrameRendered", 2) >>

PublishTransactions ==
    { WithNotifications(
        TransactionMsg(<< >>, << >>, ops, g, FALSE, FALSE), Notifications) :
            ops \in { << >>, << SetPan(1) >> }, g \in BOOLEAN }
    \cup
    { WithNotifications(
        TransactionMsg(<< SetRootPipeline >>, << AddImage(FALSE) >>, << >>, g,
                       FALSE, FALSE), Notifications) : g \in BOOLEAN }
    \cup
    { TransactionMsg(<< RemovePipeline(p) >>, << >>, << >>, g, FALSE, FALSE) :
            p \in { "p", "q" }, g \in BOOLEAN }
    \cup
    { TransactionMsg(<< SetPageZoom(2) >>, << >>, << >>, TRUE, FALSE, FALSE) }

NextPublish ==
    \/ TryRecvEmpty
    \/ \E sampled \in Samples : DrainResult(sampled, FALSE)
    \/ \E window_empty \in BOOLEAN : AddDocument(TheDocument, window_empty)
    \/ \E t \in PublishTransactions :
            prepare_transaction(TheDocument, t, << >>, FALSE)
    \/ \E has_root \in BOOLEAN, reply \in BOOLEAN :
            SceneBuilder(FALSE, has_root, reply)

SpecPublish == Init /\ [][NextPublish]_vars

\* C32 as stated: a request for the FrameBuilt checkpoint is notified once,
\* and only in an update_document that has built a frame before it notifies.
FrameBuiltNotifiedAfterBuild ==
    \A i \in 1..Len(calls) :
        (calls[i].call = "notify" /\ calls[i].request.when = "FrameBuilt") =>
            /\ \E j \in 1..(i - 1) : calls[j].call = "frame_counter"
            /\ \A k \in 1..Len(calls) : calls[k] = calls[i] => k = i

----------------------------------------------------------------------------
(* C33 as stated: frame_is_valid tells that the last frame was built from  *)
(* what the document holds now.  No step changes a document's view (pan,   *)
(* window, page zoom) or swaps its scene and leaves frame_is_valid true,   *)
(* unless the step has built and published a frame after the change.       *)
ValidFrameIsOfCurrentView ==
    [][\A d \in DOMAIN documents \cap DOMAIN documents' :
        (/\ \/ DocumentView(documents'[d]) # DocumentView(documents[d])
            \/ documents'[d].frame_id # documents[d].frame_id
         /\ documents'[d].frame_is_valid) =>
            \E i \in 1..Len(result_tx') :
                /\ result_tx'[i].type = "PublishDocument"
                /\ result_tx'[i].document_id = d]_vars

----------------------------------------------------------------------------
(* SpecSwap: the scene swap handshake (lines 564-611) one blocking call at *)
(* a time.  A result that carries a SceneSwapResult channel, for a         *)
(* document of the table, is handled in three steps of the backend: the    *)
(* swap (pc = "swapped"), the send of Complete with the resume channel     *)
(* (pc = "resume", in resume_rx.recv()), and update_document once recv has *)
(* returned.  The builder thread runs its post-swap hook in between and    *)
(* then answers on the resume channel, or drops it.                        *)

\* The result at the head of scene_rx takes the handshake
TakesHandshake ==
    /\ scene_rx # << >>
    /\ Head(scene_rx).type = "Transaction"
    /\ Head(scene_rx).reply
    /\ Head(scene_rx).txn.document_id \in DOMAIN documents

\* Lines 564-572: try_recv returns the result; the built scene is swapped in
SwapScene ==
    /\ pc = "drain"
    /\ TakesHandshake
    /\ LET txn == Head(scene_rx).txn
           document_id == txn.document_id
       IN  /\ handled' = [op |-> "SwapScene", document_id |-> document_id]
           /\ documents' = [documents EXCEPT ![document_id] =
                LET doc0 == append_removed_pipelines(@, txn.removed_pipelines)
                IN  IF IsSome(txn.built_scene)
                    THEN new_async_scene_ready(doc0, txn.built_scene[1])
                    ELSE doc0]
           /\ fresh' = [fresh EXCEPT ![document_id] =
                            @ /\ ~IsSome(txn.built_scene)]
           /\ fresh_any_scroll' = [fresh_any_scroll EXCEPT ![document_id] =
                            @ /\ ~IsSome(txn.built_scene)]
    /\ pc' = "swapped"
    /\ result_tx' = << >>
    /\ notifier' = << >>
    /\ swap_replies' = << >>
    /\ calls' = << >>
    /\ UNCHANGED <<last_scene_id, payload_rx, payload_buffer, scene_tx,
                   low_priority_scene_tx, scene_rx, capture, scene_ids, paired,
                   payloads_sent, builder_running, msgs_received, resume_rx>>

\* Lines 574-576: tx.send(SceneSwapResult::Complete(resume_tx)); the backend
\* goes into resume_rx.recv()
SendComplete ==
    /\ pc = "swapped"
    /\ pc' = "resume"
    /\ handled' = [op |-> "Complete", document_id |-> handled.document_id]
    /\ swap_replies' = << "Complete" >>
    /\ resume_rx' = Some("waiting")
    /\ result_tx' = << >>
    /\ notifier' = << >>
    /\ calls' = << >>
    /\ UNCHANGED <<documents, last_scene_id, payload_rx, payload_buffer,
                   scene_tx, low_priority_scene_tx, scene_rx, capture,
                   scene_ids, paired, payloads_sent, builder_running, fresh,
                   fresh_any_scroll, msgs_received>>

\* The builder thread (scene_builder.rs) has received Complete: it runs the
\* post-swap hook and then sends on the resume channel (answers), or ends
\* and drops the channel.
PostSwapHook(answers) ==
    /\ resume_rx = Some("waiting")
    /\ resume_rx' = Some(IF answers THEN "answered" ELSE "dropped")
    /\ UNCHANGED <<documents, last_scene_id, payload_rx, payload_buffer,
                   scene_tx, low_priority_scene_tx, scene_rx, result_tx,
                   notifier, swap_replies, capture, pc, handled, scene_ids,
                   paired, payloads_sent, fresh, fresh_any_scroll,
                   msgs_received, builder_running, calls>>

\* A recv that returns while the builder still holds the channel
recv_returns_at_once(channel) == IsSome(channel)

\* resume_rx.recv() returns: the builder has sent on the channel or dropped
\* it
recv_returns(channel) == channel \in { Some("answered"), Some("dropped") }

\* Lines 581-610: resume_rx.recv().ok() returns and update_document runs
\* for the result
ResumeUpdate(sampled, flushed) ==
    /\ pc = "resume"
    /\ recv_returns(resume_rx)
    /\ resume_rx' = None
    /\ pc' = "drain"
    /\ scene_rx' = Tail(scene_rx)
    /\ LET txn == Head(scene_rx).txn
           document_id == txn.document_id
           doc == documents[document_id]
           u == update_document(doc, document_id, txn.resource_updates,
                    txn.frame_ops, txn.notifications, txn.build_frame,
                    txn.render_frame, IsSome(txn.built_scene), sampled,
                    flushed)
       IN  /\ handled' = [op |-> "Resume", document_id |-> document_id]
           /\ documents' = [documents EXCEPT ![document_id] = u.doc]
           /\ swap_replies' = u.replies
           /\ result_tx' = u.results
           /\ calls' = u.calls
           /\ notifier' = u.notes
           /\ fresh' = [fresh EXCEPT ![document_id] =
                    FreshAfter(@, doc, FALSE, u, txn.resource_updates,
                               flushed, FALSE)]
           /\ fresh_any_scroll' = [fresh_any_scroll EXCEPT ![document_id] =
                    FreshAfter(@, doc, FALSE, u, txn.resource_updates,
                               flushed, TRUE)]
    /\ UNCHANGED <<last_scene_id, payload_rx, payload_buffer, scene_tx,
                   low_priority_scene_tx, capture, scene_ids, paired,
                   payloads_sent, builder_running, msgs_received>>

\* The body of the loop for a result without the handshake: it has no
\* SceneSwapResult channel, or its document is gone (Aborted)
DrainWithoutHandshake(sampled, flushed) ==
    /\ ~TakesHandshake
    /\ DrainResult(sampled, flushed)

SwapTransactions ==
    { TransactionMsg(<< SetRootPipeline >>, << AddImage(FALSE) >>, << >>, g,
                     FALSE, FALSE) : g \in BOOLEAN }
    \cup
    { TransactionMsg(<< >>, << >>, << SetPan(1) >>, TRUE, FALSE, FALSE) }

NextSwap ==
    \/ TryRecvEmpty
    \/ SwapScene
    \/ SendComplete
    \/ \E answers \in BOOLEAN : PostSwapHook(answers)
    \/ \E sampled \in Samples : ResumeUpdate(sampled, FALSE)
    \/ \E sampled \in Samples : DrainWithoutHandshake(sampled, FALSE)
    \/ AddDocument(TheDocument, FALSE)
    \/ DeleteDocument(TheDocument)
    \/ \E t \in SwapTransactions :
            prepare_transaction(TheDocument, t, << >>, FALSE)
    \/ \E has_root \in BOOLEAN, reply \in BOOLEAN :
            SceneBuilder(FALSE, has_root, reply)

SpecSwap == Init /\ [][NextSwap]_vars

(* C34: for a result that carries a SceneSwapResult channel the backend    *)
(* first swaps the built scene in, then sends Complete with the resume     *)
(* channel, then waits on that channel, and only after the builder has     *)
(* run its post-swap hook and answered (or dropped the channel) does it    *)
(* run update_document, and with it sample the sampler, for the result.    *)
SwapHandshakeInOrder ==
    [][/\ (resume_rx = None /\ resume_rx' # None) =>
            /\ pc = "swapped" /\ pc' = "resume"
            /\ swap_replies' = << "Complete" >>
            /\ resume_rx' = Some("waiting")
            /\ LET txn == Head(scene_rx).txn
                   doc == documents[txn.document_id]
               IN  IsSome(txn.built_scene) =>
                        /\ doc.has_root = txn.built_scene[1].has_root
                        /\ doc.frame_builder
                        /\ ~doc.frame_is_valid
       /\ pc' \in { "swapped", "resume" } =>
            /\ calls' = << >>
            /\ result_tx' = << >>
            /\ Head(scene_rx') = Head(scene_rx)
       /\ (pc \in { "swapped", "resume" } /\ pc' = "drain") =>
            /\ pc = "resume"
            /\ resume_rx \in { Some("answered"), Some("dropped") }
            /\ scene_rx' = Tail(scene_rx)
       /\ (pc = "drain" /\ TakesHandshake) =>
            /\ scene_rx' # << >>
            /\ Head(scene_rx') = Head(scene_rx)
            /\ \/ pc' = "swapped"
               \/ pc' = "drain" /\ UNCHANGED << documents, calls, result_tx >>]_vars

\* The backend samples for a swapped result after the hook has answered
SampledAfterPostSwapHook ==
    /\ pc = "drain"
    /\ handled.op = "Resume"
    /\ \E i \in 1..Len(calls) : calls[i].call = "sample"
    /\ \E i \in 1..Len(result_tx) : result_tx[i].type = "PublishDocument"
    /\ resume_rx = None
    /\ swap_replies = << >>

----------------------------------------------------------------------------
\* The validity flags of one document agree with what the document holds
FlagsAgree(doc) ==
    /\ doc.frame_is_valid => doc.hit_tester_is_valid
    /\ doc.hit_tester_is_valid => doc.hit_tester
    /\ doc.frame_is_valid => doc.frame_builder

(* C35: in every state and for every document, frame_is_valid implies      *)
(* hit_tester_is_valid, hit_tester_is_valid implies that a hit tester is   *)
(* present, and frame_is_valid implies that a frame builder is present;    *)
(* and a frame builder that is present stays present for as long as the    *)
(* document exists, that is until a message makes a new Document under     *)
(* its id.                                                                 *)
ValidFlagsHaveTheirObjects ==
    [][/\ \A d \in DOMAIN documents : FlagsAgree(documents[d])
       /\ \A d \in DOMAIN documents' : FlagsAgree(documents'[d])
       /\ \A d \in DOMAIN documents \cap DOMAIN documents' :
            (documents[d].frame_builder /\ ~documents'[d].frame_builder) =>
                /\ msgs_received' = msgs_received + 1
                /\ handled' = [op |-> "AddDocument", document_id |-> d]]_vars

\* A document with a valid frame of its second scene: the frame builder,
\* the hit tester and both flags are there after two swaps
FrameValidWithHitTesterAndBuilder ==
    /\ TheDocument \in DOMAIN documents
    /\ LET doc == documents[TheDocument]
       IN  /\ doc.frame_is_valid
           /\ doc.hit_tester_is_valid
           /\ doc.hit_tester
           /\ doc.frame_builder
           /\ doc.frame_id = 2

----------------------------------------------------------------------------
(* The order in which the transactions of one document take effect.        *)

\* The step receives a transaction of document d and runs update_document
\* for it on the fast path
FastPathApplies(d) ==
    /\ msgs_received' = msgs_received + 1
    /\ handled' = [op |-> "UpdateDocument", document_id |-> d]
    /\ \E i \in 1..Len(calls') : calls'[i].call = "post_scene_building_update"

\* The step takes a result of document d from scene_rx and runs
\* update_document for it
ResultApplies(d) ==
    /\ pc = "drain"
    /\ scene_rx # << >>
    /\ scene_rx' = Tail(scene_rx)
    /\ handled' = [op |-> "Transaction", document_id |-> d]
    /\ \E i \in 1..Len(calls') : calls'[i].call = "post_scene_building_update"

\* The transactions of document d that the builder has not yet taken, or
\* whose results the backend has not yet taken
InFlight(d) ==
    { scene_tx[i] : i \in TransactionsOf(scene_tx, d) }
    \cup { low_priority_scene_tx[i] :
                i \in TransactionsOf(low_priority_scene_tx, d) }
    \cup { scene_rx[i] : i \in TransactionsOf(scene_rx, d) }

\* C36 as stated: the transactions of one document take effect in the
\* order in which they were submitted: update_document runs for a
\* transaction only when no transaction of the document that was submitted
\* before it is still on its way through the scene builder, whatever the
\* routes and the priority channels of the two.
TakeEffectInSubmissionOrder ==
    [][\A d \in DOMAIN documents :
        /\ FastPathApplies(d) => InFlight(d) = {}
        /\ ResultApplies(d) =>
                \A r \in InFlight(d) : Head(scene_rx).seq <= r.seq]_vars

(* C36, as the code has it: a transaction that takes the fast path takes   *)
(* effect in the step that receives it, whatever is in flight; the         *)
(* transactions of one document that are sent to the builder on the same   *)
(* priority channel take effect in the order in which they were submitted. *)
SameChannelTakesEffectInOrder ==
    [][\A d \in DOMAIN documents :
        /\ FastPathApplies(d) =>
                UNCHANGED << scene_tx, low_priority_scene_tx, scene_rx >>
        /\ ResultApplies(d) =>
                \A r \in InFlight(d) :
                    r.low = Head(scene_rx).low =>
                        Head(scene_rx).seq <= r.seq]_vars

\* A result of a document whose pan has been set has just been applied
\* while a transaction of the document that was submitted after it waits
\* in the normal channel
AppliedWithLaterOnesInFlight ==
    \E d \in DOMAIN documents :
        /\ handled = [op |-> "Transaction", document_id |-> d]
        /\ \E i \in 1..Len(calls) : calls[i].call = "post_scene_building_update"
        /\ TransactionsOf(scene_tx, d) # {}
        /\ documents[d].pan = 1

----------------------------------------------------------------------------
(* What update_document publishes and whom it notifies.                    *)

\* The latest step has sent a PublishDocument for document d
Published(results, d) ==
    \E i \in 1..Len(results) :
        /\ results[i].type = "PublishDocument"
        /\ results[i].document_id = d

\* The latest step has told the notifier of a new frame of document d
Notified(notes, d) ==
    \E i \in 1..Len(notes) :
        /\ notes[i].type = "new_frame_ready"
        /\ notes[i].document_id = d

----------------------------------------------------------------------------
\* How often the latest step has incremented the frame counter
FrameCounterIncrements(log) ==
    Cardinality({ i \in 1..Len(log) : log[i].call = "frame_counter" })

\* The types of the result messages, in the order of the sends
ResultTypes(results) == [i \in 1..Len(results) |-> results[i].type]

(* C38: an update_document that builds a frame sends on the result channel *)
(* exactly one UpdateGpuCache, one PublishPipelineInfo and one             *)
(* PublishDocument of its document, in this order, and increments the      *)
(* frame counter once; one that builds no frame sends no UpdateGpuCache    *)
(* and no PublishDocument and leaves the counter, and sends one            *)
(* PublishPipelineInfo iff a frame was requested.  The build block (lines   *)
(* 1001-1037) is the one that increments the frame counter; the frame of   *)
(* the document is valid after it.                                         *)
BuiltFramePublishedInOrder ==
    [][\A d \in DocIds :
        (FastPathApplies(d) \/ ResultApplies(d)) =>
            LET requested == IF ResultApplies(d)
                             THEN Head(scene_rx).txn.render_frame
                             ELSE notifier' # << >>
                built == FrameCounterIncrements(calls') > 0
            IN  IF built
                THEN /\ documents'[d].frame_is_valid
                     /\ ResultTypes(result_tx') =
                            << "UpdateGpuCache", "PublishPipelineInfo",
                               "PublishDocument" >>
                     /\ result_tx'[2].document_id = d
                     /\ result_tx'[3].document_id = d
                     /\ result_tx'[3].frame_id = documents'[d].frame_id
                     /\ FrameCounterIncrements(calls') = 1
                ELSE /\ ResultTypes(result_tx') =
                            IF requested THEN << "PublishPipelineInfo" >>
                            ELSE << >>
                     /\ requested => result_tx'[1].document_id = d
                     /\ FrameCounterIncrements(calls') = 0]_vars

\* A fast-path update_document has built a frame: the three results are
\* out, the frame counter went up once
BuiltFrameCountedOnce ==
    /\ handled = [op |-> "UpdateDocument", document_id |-> TheDocument]
    /\ ResultTypes(result_tx) =
            << "UpdateGpuCache", "PublishPipelineInfo", "PublishDocument" >>
    /\ FrameCounterIncrements(calls) = 1

----------------------------------------------------------------------------
\* The PublishPipelineInfo messages for document d among the results
PipelineInfosOf(results, d) ==
    SelectSeq(results, LAMBDA m : m.type = "PublishPipelineInfo"
                                  /\ m.document_id = d)

----------------------------------------------------------------------------
(* The two updates of the resource cache that a transaction brings.        *)

\* The positions of the calls of the given kind in the log of a step
CallsOf(log, kind) == { i \in 1..Len(log) : log[i].call = kind }

\* The step takes the result of a transaction from scene_rx for good: at
\* once, or when the scene swap handshake is over
TakesResult ==
    /\ pc \in { "drain", "resume" }
    /\ scene_rx # << >>
    /\ Head(scene_rx).type = "Transaction"
    /\ scene_rx' = Tail(scene_rx)

\* The step receives an UpdateDocument and handles it without a panic
HandlesTransaction ==
    /\ msgs_received' = msgs_received + 1
    /\ handled'.op = "UpdateDocument"
    /\ pc' # "panicked"

====
